---- MODULE Spec2Model ----
(***************************************************************************)
(* Change detection, broadcast and viewer reconciliation of the UMAP       *)
(* image explorer.  The repository ships two services that watch the same  *)
(* CSV file: the Dash application (app.py) and the FastAPI WebSocket       *)
(* service (fastapi_service/).  The variable `service` says which of the   *)
(* two a behaviour is about.                                               *)
(*                                                                         *)
(* Time is counted in tenths of a second.  A DataFrame is the sequence of  *)
(* its data rows; the row at position i of the sequence has DataFrame      *)
(* index i - 1.                                                            *)
(***************************************************************************)
EXTENDS Integers, Sequences, FiniteSets, TLC

VARIABLES
    service,        \* "dash" (app.py) or "fastapi" (fastapi_service/)
    csv,            \* data rows of data/phenobase.csv, in file order
    now,            \* time.time(), in tenths of a second
    last_count,     \* CSVMonitorHandler.last_count (the Baseline)
    last_modified,  \* CSVMonitorHandler.last_modified
    wpc,            \* position of on_modified: "idle" or "tail" (between the two reads)
    current_count,  \* local of on_modified, kept across the second read
    scheduled,      \* coroutines handed to run_coroutine_threadsafe, in order
    cycle,          \* history: the latest processed cycle
    history,        \* history: the Baseline's course since construction
    signal,         \* history: the file's writes and the signals raised for them
    sock,           \* each WebSocket: "new", "open", "stalled" (peer reads nothing), "closed", "gone"
    chan,           \* history: the channel each WebSocket was connected with
    active_connections,  \* ConnectionManager.active_connections
    channels,       \* ConnectionManager.channels
    connected_clients,   \* app.py connected_clients
    bc,             \* the broadcast in flight, or the one that ended last
    ws_message,     \* viewer: the WebSocket component's latest message, <<>> when none
    ws_message_store,     \* viewer: ws-message-store, <<>> when unset
    freeze_toggle,        \* viewer: freeze-toggle.checked
    event_log_store,      \* viewer: event-log-store
    event_count_badge,    \* viewer: event-count-badge
    pending_update_store, \* viewer: pending-update-store
    pending_badge,        \* viewer: the display style of pending-badge
    new_rows_store,       \* viewer: new-rows-store
    triggered,      \* viewer: callbacks the changed ws-message-store has yet to run
    handled,        \* history: the ChangeEvents update_event_log has handled
    in_flight,      \* viewer: requests of update_event_log sent and not yet answered
    loaded,         \* viewer: what a running update_umap_and_data has loaded, <<>> when none runs
    relay,          \* app.py: the broadcast coroutines on the event loop, the iteration
                    \* order of connected_clients and what each client was sent
    pair,           \* the two CSVMonitorHandlers side by side, fed the same signals
    watcher,        \* CSVWatcherService.observer (0 when None), the Observer threads
                    \* started with their handlers, and the last call that returned
    patch_dropdown,   \* viewer: patch-dropdown.value
    coord_dropdown,   \* viewer: coord-dropdown.value
    selected_data,    \* viewer: umap-plot.selectedData, the selected point indexes
    relayout_data,    \* viewer: timeseries-plot.relayoutData
    data_store,       \* viewer: data-store, <<>> when None
    umap_plot,        \* viewer: umap-plot.figure
    data_table,       \* viewer: data-table rowData, columnDefs and table-row-count
    timeseries_plot,  \* viewer: timeseries-plot.figure and timeseries-store
    stats_display,    \* viewer: stats-display.children
    notification,     \* viewer: notification-container.sendNotifications
    dispatched,       \* viewer: callbacks a changed input has yet to run, with ctx.triggered_id
    notified,         \* history: the ChangeEvents send_new_data_notification has announced
    cache_store,      \* the Flask-Caching backend: memoize key -> value and expiry
    cache_clock,      \* time.time() as the cache backend reads it, in hours
    requests,         \* the position of each request thread inside a memoized lookup
    lookups           \* history: the memoized lookups begun, in order

watcherVars ==
    <<csv, now, last_count, last_modified, wpc, current_count, scheduled, cycle, history,
      signal>>

bcastVars == <<sock, chan, active_connections, channels, connected_clients, bc>>

viewerVars ==
    <<ws_message, ws_message_store, freeze_toggle, event_log_store, event_count_badge,
      pending_update_store, pending_badge, new_rows_store, triggered, handled>>

refreshVars ==
    <<patch_dropdown, coord_dropdown, selected_data, relayout_data, data_store, umap_plot,
      data_table, timeseries_plot, stats_display, notification, dispatched, notified>>

cacheVars == <<cache_store, cache_clock, requests, lookups>>

flightVars == <<in_flight, loaded, relay, pair, watcher>>

vars == <<service, watcherVars, bcastVars, viewerVars, flightVars, refreshVars, cacheVars>>

----------------------------------------------------------------------------
(* Bounds of the model *)

MaxRows == 4
MaxTime == 16
InitRows == 2
\* Writes of the file whose outcome the history records.
MaxWrites == 3

(* Program constants *)

debounce_delay == 5

Services == {"dash", "fastapi"}

Min(a, b) == IF a < b THEN a ELSE b

----------------------------------------------------------------------------
(* The source file *)

\* The data row with DataFrame index i.  Two consecutive patches are cut from
\* the same .czi image, so czi_filename is shared and the patch path is unique.
\* Every row has an integer pos.
Row(i) ==
    [czi_filename |-> <<"czi", i \div 2>>, pos |-> i % 2,
     patches_2d_ch0_tl_exp_path |-> <<"patch", i>>]

Rows(n) == [i \in 1..n |-> Row(i - 1)]

\* df.tail(n): the last n rows, all of them when the frame is shorter.
DfTail(df, n) == SubSeq(df, Len(df) - Min(n, Len(df)) + 1, Len(df))

\* DataFrame index labels of df.tail(n), as iterrows() yields them.
TailIndex(df, n) == [k \in 1..Min(n, Len(df)) |-> Len(df) - Min(n, Len(df)) + k - 1]

\* History of a write that leaves the file with n rows: the scenario stays
\* orderly while every write is signalled before the next one and no write
\* falls inside a detection cycle.
Written(n) ==
    IF signal.recording
    THEN [signal EXCEPT !.pending = TRUE,
                        !.orderly = @ /\ ~signal.pending /\ wpc = "idle",
                        !.writes = IF Len(@) < MaxWrites THEN Append(@, n) ELSE @]
    ELSE signal

\* History of a modify signal for the tracked file reaching on_modified:
\* `how` is "cycle" when it starts a detection cycle and "window" when it is
\* held back by the debounce test.
Signalled(ok, how) ==
    IF signal.recording
    THEN [signal EXCEPT !.pending = FALSE, !.orderly = @ /\ ok,
                        !.seen = IF Len(@) < MaxWrites THEN Append(@, how) ELSE @]
    ELSE signal

\* The simulator appends a batch of rows.
AppendRows(n) ==
    /\ Len(csv) + n <= MaxRows
    /\ csv' = Rows(Len(csv) + n)
    /\ signal' = Written(Len(csv) + n)
    /\ UNCHANGED <<service, flightVars, refreshVars, cacheVars, now, last_count, last_modified, wpc,
                   current_count, scheduled, cycle, history, bcastVars, viewerVars>>

\* The simulator rewrites the file with its first k rows.
ResetCsv(k) ==
    /\ k < Len(csv)
    /\ csv' = SubSeq(csv, 1, k)
    /\ signal' = Written(k)
    /\ UNCHANGED <<service, flightVars, refreshVars, cacheVars, now, last_count, last_modified, wpc,
                   current_count, scheduled, cycle, history, bcastVars, viewerVars>>

\* Rows of a file whose frame for one coordinate is longer than the 60 rows
\* pandas prints in full.
LargeRows == 122

\* The producer appends the rows up to LargeRows to the rows still in the
\* file; appended row d, if any, comes from another acquisition run and
\* names another image.
Regrow(d) ==
    /\ Len(csv) < LargeRows
    /\ csv' = [i \in 1..LargeRows |->
                  IF i <= Len(csv) THEN csv[i]
                  ELSE IF i = d
                  THEN [Row(i - 1) EXCEPT !.czi_filename = <<"rerun", (i - 1) \div 2>>]
                  ELSE Row(i - 1)]
    /\ signal' = Written(LargeRows)
    /\ UNCHANGED <<service, flightVars, refreshVars, cacheVars, now, last_count, last_modified, wpc,
                   current_count, scheduled, cycle, history, bcastVars, viewerVars>>

Tick ==
    /\ now < MaxTime
    /\ now' = now + 1
    /\ UNCHANGED <<service, flightVars, refreshVars, cacheVars, csv, last_count, last_modified, wpc,
                   current_count, scheduled, cycle, history, signal, bcastVars, viewerVars>>

----------------------------------------------------------------------------
(* Paths are sequences of tokens, so that endswith is computed *)

PhenobasePath == <<"data/", "phenobase.csv">>
BackupPath == <<"data/", "phenobase.csv", ".backup">>
OtherPath == <<"data/", "umap.csv">>

FsEvents == [is_directory : BOOLEAN, src_path : {PhenobasePath, BackupPath, OtherPath}]

EndsWith(s, t) == Len(s) >= Len(t) /\ SubSeq(s, Len(s) - Len(t) + 1, Len(s)) = t

----------------------------------------------------------------------------
(* SourceWatcher *)

\* The entry of new_rows_info built from one row by the FastAPI service.
RowInfo(row) ==
    [filename |-> row.czi_filename, pos |-> row.pos,
     patch_path |-> row.patches_2d_ch0_tl_exp_path]

\* The entry of new_rows_info built from one row by the Dash application.
RowInfoDash(row) == [filename |-> row.czi_filename, pos |-> row.pos]

\* The broadcast scheduled for new_count rows of df; `rows` are the DataFrame
\* index labels of the summarized rows (history, not sent).
ChangeEvent(df, new_count, total) ==
    [count |-> new_count,
     total |-> total,
     images |-> [k \in 1..Len(DfTail(df, new_count)) |->
                    IF service = "fastapi" THEN RowInfo(DfTail(df, new_count)[k])
                                           ELSE RowInfoDash(DfTail(df, new_count)[k])],
     rows |-> TailIndex(df, new_count)]

\* CSVMonitorHandler._get_row_count: a failed read is logged and counts as 0.
GetRowCount(ok) == IF ok THEN Len(csv) ELSE 0

\* The signal is not for the tracked file.
Ignored(event) ==
    IF service = "fastapi"
    THEN event.is_directory \/ ~EndsWith(event.src_path, <<"phenobase.csv">>)
    ELSE ~EndsWith(event.src_path, <<"phenobase.csv">>)

\* Mutant of Debounced: no signal is held back.
DebouncedNever == FALSE

\* if current_time - self.last_modified < self.debounce_delay: return
Debounced == now - last_modified < debounce_delay

\* History of the Baseline once a cycle has settled on the count c: `monotone`
\* until a count below the Baseline is seen, `rebased` while the Baseline is
\* the one a reset left.
Observe(c) ==
    [C0 |-> history.C0,
     monotone |-> history.monotone /\ c >= last_count,
     rebased |-> IF c < last_count THEN TRUE
                 ELSE IF c > last_count THEN FALSE ELSE history.rebased]

\* Mutant of Grew: a count equal to the Baseline is taken for growth.
GrewOrEqual(c) == c >= last_count

\* if current_count > self.last_count:
Grew(c) == c > last_count

\* Mutant of HandlerIdle: a signal is delivered while on_modified runs.
HandlerIdleOrBusy == TRUE

\* The one observer thread calls on_modified for one signal at a time: a
\* signal is delivered once the call for the signal before it has returned.
HandlerIdle == wpc = "idle"

\* on_modified returns before the debounce stamp is taken.
OnModifiedSkip(event) ==
    /\ HandlerIdle
    /\ Ignored(event) \/ Debounced
    /\ signal' = IF Ignored(event) THEN signal ELSE Signalled(TRUE, "window")
    /\ UNCHANGED <<service, flightVars, refreshVars, cacheVars, csv, now, last_count, last_modified, wpc,
                   current_count, scheduled, cycle, history, bcastVars, viewerVars>>

\* app.py on_modified: one read gives the count and the tail rows.
OnModifiedDash(event, ok) ==
    /\ service = "dash"
    /\ HandlerIdle
    /\ ~Ignored(event)
    /\ ~Debounced
    /\ last_modified' = now
    /\ signal' = Signalled(ok, "cycle")
    /\ IF ~ok
       THEN \* read_csv raised: caught by the handler's except
            /\ cycle' = [before |-> last_count, observed |-> -1, failed |-> TRUE]
            /\ UNCHANGED <<last_count, scheduled, history>>
       ELSE /\ cycle' = [before |-> last_count, observed |-> Len(csv), failed |-> FALSE]
            /\ history' = Observe(Len(csv))
            /\ IF Len(csv) < last_count
               THEN /\ last_count' = Len(csv)
                    /\ UNCHANGED scheduled
               ELSE IF Grew(Len(csv))
               THEN /\ last_count' = Len(csv)
                    /\ scheduled' = Append(scheduled,
                           ChangeEvent(csv, Len(csv) - last_count, Len(csv)))
               ELSE UNCHANGED <<last_count, scheduled>>
    /\ UNCHANGED <<service, flightVars, refreshVars, cacheVars, csv, now, wpc, current_count, bcastVars, viewerVars>>

\* csv_monitor.py on_modified up to the second read.
OnModifiedCount(event, ok) ==
    /\ service = "fastapi"
    /\ HandlerIdle
    /\ ~Ignored(event)
    /\ ~Debounced
    /\ last_modified' = now
    /\ signal' = Signalled(ok, "cycle")
    /\ cycle' = [before |-> last_count, observed |-> GetRowCount(ok), failed |-> ~ok]
    /\ history' = IF GetRowCount(ok) > last_count THEN history
                  ELSE Observe(GetRowCount(ok))
    /\ IF GetRowCount(ok) < last_count
       THEN /\ last_count' = GetRowCount(ok)
            /\ UNCHANGED <<wpc, current_count>>
       ELSE IF Grew(GetRowCount(ok))
       THEN /\ wpc' = "tail"
            /\ current_count' = GetRowCount(ok)
            /\ UNCHANGED last_count
       ELSE UNCHANGED <<last_count, wpc, current_count>>
    /\ UNCHANGED <<service, flightVars, refreshVars, cacheVars, csv, now, scheduled, bcastVars, viewerVars>>

\* csv_monitor.py on_modified from the second read on.
OnModifiedTail(ok) ==
    /\ service = "fastapi"
    /\ wpc = "tail"
    /\ wpc' = "idle"
    /\ current_count' = 0
    /\ signal' = IF signal.recording THEN [signal EXCEPT !.orderly = @ /\ ok] ELSE signal
    /\ IF ~ok
       THEN \* read_csv raised: caught by the handler's except
            /\ cycle' = [cycle EXCEPT !.failed = TRUE]
            /\ UNCHANGED <<last_count, scheduled, history>>
       ELSE /\ last_count' = current_count
            /\ history' = Observe(current_count)
            /\ scheduled' = Append(scheduled,
                   ChangeEvent(csv, current_count - last_count, current_count))
            /\ UNCHANGED cycle
    /\ UNCHANGED <<service, flightVars, refreshVars, cacheVars, csv, now, last_modified, bcastVars, viewerVars>>

\* Where a cycle that has found new rows can raise before it returns: in the
\* loop that summarizes the rows (int() of a pos that is no number) or in
\* run_coroutine_threadsafe (the event loop is closed).
AbortSteps == {"summarize", "schedule"}

\* The Baseline a cycle that raised at `step` leaves, having observed the
\* count c: self.last_count = current_count stands between the loop over the
\* rows and run_coroutine_threadsafe.
AbortedBaseline(step, c) == IF step = "schedule" THEN c ELSE last_count

\* app.py on_modified finds new rows and raises at `step`; the handler's
\* except logs the error.
OnModifiedDashAborts(event, step) ==
    /\ service = "dash"
    /\ HandlerIdle
    /\ ~Ignored(event)
    /\ ~Debounced
    /\ Grew(Len(csv))
    /\ last_modified' = now
    /\ signal' = Signalled(FALSE, "cycle")
    /\ cycle' = [before |-> last_count, observed |-> Len(csv), failed |-> TRUE]
    /\ last_count' = AbortedBaseline(step, Len(csv))
    /\ UNCHANGED <<service, flightVars, refreshVars, cacheVars, csv, now, wpc, current_count,
                   scheduled, history, bcastVars, viewerVars>>

\* csv_monitor.py on_modified raises at `step` after its second read.
OnModifiedTailAborts(step) ==
    /\ service = "fastapi"
    /\ wpc = "tail"
    /\ wpc' = "idle"
    /\ current_count' = 0
    /\ signal' = IF signal.recording THEN [signal EXCEPT !.orderly = FALSE] ELSE signal
    /\ cycle' = [cycle EXCEPT !.failed = TRUE]
    /\ last_count' = AbortedBaseline(step, current_count)
    /\ UNCHANGED <<service, flightVars, refreshVars, cacheVars, csv, now, last_modified, scheduled,
                   history, bcastVars, viewerVars>>

\* A CSVMonitorHandler as __init__ leaves it, its first count being c.
NewHandler(c) == [last_count |-> c, last_modified |-> 0, scheduled |-> <<>>]

\* app.py CSVMonitorHandler.on_modified, as a function of the handler h, the
\* signal, the time t, the file df and whether read_csv succeeds.  Of what a
\* cycle hands to the broadcast, new_count, current_count and the DataFrame
\* index labels of df.tail(new_count) are kept.
DashOnModified(h, event, t, df, ok) ==
    IF ~EndsWith(event.src_path, <<"phenobase.csv">>) THEN h
    ELSE IF t - h.last_modified < debounce_delay THEN h
    ELSE IF ~ok THEN [h EXCEPT !.last_modified = t]
    ELSE IF Len(df) < h.last_count
    THEN [h EXCEPT !.last_modified = t, !.last_count = Len(df)]
    ELSE IF Len(df) > h.last_count
    THEN [h EXCEPT !.last_modified = t, !.last_count = Len(df),
                   !.scheduled = Append(@, [count |-> Len(df) - h.last_count,
                                            total |-> Len(df),
                                            rows |-> TailIndex(df, Len(df) - h.last_count)])]
    ELSE [h EXCEPT !.last_modified = t]

\* csv_monitor.py CSVMonitorHandler.on_modified, as a function of the same:
\* both reads of the cycle see df, and a read that fails counts 0 rows.
FastapiOnModified(h, event, t, df, ok) ==
    LET row_count == IF ok THEN Len(df) ELSE 0
    IN IF event.is_directory \/ ~EndsWith(event.src_path, <<"phenobase.csv">>) THEN h
       ELSE IF t - h.last_modified < debounce_delay THEN h
       ELSE IF row_count < h.last_count
       THEN [h EXCEPT !.last_modified = t, !.last_count = row_count]
       ELSE IF row_count > h.last_count
       THEN [h EXCEPT !.last_modified = t, !.last_count = row_count,
                      !.scheduled = Append(@, [count |-> row_count - h.last_count,
                                               total |-> row_count,
                                               rows |-> TailIndex(df, row_count - h.last_count)])]
       ELSE [h EXCEPT !.last_modified = t]

\* One modify signal reaches both handlers at the same time, over the same
\* file and with the same outcome of the read.
PairSignal(event, ok) ==
    /\ pair' = [dash |-> DashOnModified(pair.dash, event, now, csv, ok),
                fastapi |-> FastapiOnModified(pair.fastapi, event, now, csv, ok)]
    /\ UNCHANGED <<service, in_flight, loaded, relay, watcher, refreshVars, cacheVars, watcherVars,
                   bcastVars, viewerVars>>

\* Observer threads one CSVWatcherService is made to start.
MaxObservers == 2

\* CSVWatcherService.start: nothing when the path does not exist; else a new
\* handler and a new Observer, which self.observer then names, are started.
ServiceStart(exists, ok) ==
    /\ Len(watcher.threads) < MaxObservers
    /\ watcher' =
          IF ~exists THEN [watcher EXCEPT !.last = "start"]
          ELSE [observer |-> Len(watcher.threads) + 1,
                threads |-> Append(watcher.threads,
                    [state |-> "running",
                     handler |-> [NewHandler(GetRowCount(ok)) EXCEPT !.last_modified = now]]),
                last |-> "start"]
    /\ UNCHANGED <<service, in_flight, loaded, relay, pair, refreshVars, cacheVars, watcherVars,
                   bcastVars, viewerVars>>

\* CSVWatcherService.stop: the Observer self.observer names, if any, is
\* stopped and joined.
ServiceStop ==
    /\ watcher' =
          IF watcher.observer = 0 THEN [watcher EXCEPT !.last = "stop"]
          ELSE [watcher EXCEPT !.threads[watcher.observer].state = "stopped", !.last = "stop"]
    /\ UNCHANGED <<service, in_flight, loaded, relay, pair, refreshVars, cacheVars, watcherVars,
                   bcastVars, viewerVars>>

\* A running Observer thread delivers a modify signal to its handler.
ObserverSignal(i, event, ok) ==
    /\ i \in 1..Len(watcher.threads)
    /\ watcher.threads[i].state = "running"
    /\ watcher' = [watcher EXCEPT !.threads[i].handler =
                      FastapiOnModified(@, event, now, csv, ok)]
    /\ UNCHANGED <<service, in_flight, loaded, relay, pair, refreshVars, cacheVars, watcherVars,
                   bcastVars, viewerVars>>

----------------------------------------------------------------------------
(* Broadcaster *)

NumSockets == 3

Sockets == 1..NumSockets
ChannelNames == {"a", "b"}
None == "None"

\* The state of a broadcast that has attempted no delivery yet.
NewBroadcast(channel, targets, registered) ==
    [pc |-> "sending", channel |-> channel,
     start |-> targets,                   \* members when the iteration began
     visited |-> {},                      \* members the iteration has yielded
     dead_connections |-> {},
     attempts |-> [ws \in Sockets |-> 0], \* history: sends attempted
     received |-> [ws \in Sockets |-> 0], \* history: sends that succeeded
     failed |-> {},                       \* history: members whose send raised
     registered |-> registered,           \* history: the registry at the start
     mutated |-> FALSE]                   \* history: registry changed meanwhile

\* Mutant of Targets: the channel argument is ignored.
TargetsIgnoreChannel(channel) == active_connections

\* targets = self.channels.get(channel, set()) if channel else self.active_connections
Targets(channel) ==
    IF channel # None
    THEN IF channel \in DOMAIN channels THEN channels[channel] ELSE {}
    ELSE active_connections

\* send_text / send succeeds on an open socket.
SendOk(ws) == sock[ws] = "open"

\* The peer has stopped reading: a send to it is awaited and never completes.
Stalled(ws) == sock[ws] = "stalled"

\* send_text / send raises on a socket that is closed.
SendRaises(ws) == ~SendOk(ws) /\ ~Stalled(ws)

\* Mutant of Deliver: a failed send ends the loop, as an uncaught exception would.
DeliverOrAbort(b, ws) ==
    [b EXCEPT !.pc = IF Stalled(ws) THEN "blocked" ELSE @,
              !.visited = IF SendRaises(ws) THEN b.start ELSE @ \cup {ws},
              !.attempts[ws] = @ + 1,
              !.received[ws] = IF SendOk(ws) THEN @ + 1 ELSE @,
              !.dead_connections = IF SendRaises(ws) THEN @ \cup {ws} ELSE @,
              !.failed = IF SendRaises(ws) THEN @ \cup {ws} ELSE @]

\* One pass of the loop body of ConnectionManager.broadcast for connection ws.
\* `await connection.send_text(message)` has no timeout: on a stalled socket
\* the coroutine stays suspended in it ("blocked").
Deliver(b, ws) ==
    [b EXCEPT !.pc = IF Stalled(ws) THEN "blocked" ELSE @,
              !.visited = @ \cup {ws},
              !.attempts[ws] = @ + 1,
              !.received[ws] = IF SendOk(ws) THEN @ + 1 ELSE @,
              !.dead_connections = IF SendRaises(ws) THEN @ \cup {ws} ELSE @,
              !.failed = IF SendRaises(ws) THEN @ \cup {ws} ELSE @]

\* One pass of the loop body of broadcast_new_images for client ws (the
\* failed client is discarded from connected_clients by the caller).
DeliverDash(b, ws) ==
    [b EXCEPT !.pc = IF Stalled(ws) THEN "blocked" ELSE @,
              !.visited = @ \cup {ws},
              !.attempts[ws] = @ + 1,
              !.received[ws] = IF SendOk(ws) THEN @ + 1 ELSE @,
              !.failed = IF SendRaises(ws) THEN @ \cup {ws} ELSE @]

\* ConnectionManager.disconnect, its effect on active_connections.
DisconnectActive(ac, ws) == ac \ {ws}

\* ConnectionManager.disconnect, its effect on channels.
DisconnectChannels(chs, ws, channel) ==
    IF channel # None /\ channel \in DOMAIN chs
    THEN IF chs[channel] \ {ws} = {}
         THEN [c \in DOMAIN chs \ {channel} |-> chs[c]]
         ELSE [chs EXCEPT ![channel] = @ \ {ws}]
    ELSE chs

\* Mutant of PruneActive: dead connections are collected and never removed.
PruneNothing(ac, dead) == ac

RECURSIVE PruneActive(_, _)
\* for conn in dead_connections: self.disconnect(conn, channel) -- active_connections
PruneActive(ac, dead) ==
    IF dead = {} THEN ac
    ELSE LET conn == CHOOSE c \in dead : TRUE
         IN PruneActive(DisconnectActive(ac, conn), dead \ {conn})

RECURSIVE PruneChannels(_, _, _)
\* for conn in dead_connections: self.disconnect(conn, channel) -- channels
PruneChannels(chs, dead, channel) ==
    IF dead = {} THEN chs
    ELSE LET conn == CHOOSE c \in dead : TRUE
         IN PruneChannels(DisconnectChannels(chs, conn, channel), dead \ {conn}, channel)

\* WebSocket objects are numbered in the order their connections arrive.
NextSocket(ws) == sock[ws] = "new" /\ \A w \in Sockets : w < ws => sock[w] # "new"

\* The registry changed while a broadcast was suspended in a send.
Touch(b) == IF b.pc = "sending" THEN [b EXCEPT !.mutated = TRUE] ELSE b

\* ConnectionManager.connect
Connect(ws, channel) ==
    /\ service = "fastapi"
    /\ NextSocket(ws)
    /\ sock' = [sock EXCEPT ![ws] = "open"]
    /\ chan' = [chan EXCEPT ![ws] = channel]
    /\ active_connections' = active_connections \cup {ws}
    /\ channels' =
         IF channel # None
         THEN IF channel \in DOMAIN channels
              THEN [channels EXCEPT ![channel] = @ \cup {ws}]
              ELSE [c \in DOMAIN channels \cup {channel} |->
                       IF c = channel THEN {ws} ELSE channels[c]]
         ELSE channels
    /\ bc' = Touch(bc)
    /\ UNCHANGED <<service, flightVars, refreshVars, cacheVars, watcherVars, viewerVars, connected_clients>>

\* The peer closes its end of the WebSocket.
CloseSocket(ws) ==
    /\ sock[ws] = "open"
    /\ sock' = [sock EXCEPT ![ws] = "closed"]
    /\ UNCHANGED <<service, flightVars, refreshVars, cacheVars, watcherVars, viewerVars, chan, active_connections, channels,
                   connected_clients, bc>>

\* The peer stops reading while the connection stays up: the send buffers
\* fill, and from then on a send to it does not complete.
StallSocket(ws) ==
    /\ sock[ws] = "open"
    /\ sock' = [sock EXCEPT ![ws] = "stalled"]
    /\ UNCHANGED <<service, flightVars, refreshVars, cacheVars, watcherVars, viewerVars, chan, active_connections, channels,
                   connected_clients, bc>>

\* websocket_endpoint: receive_text raises WebSocketDisconnect.
EndpointDisconnect(ws) ==
    /\ service = "fastapi"
    /\ sock[ws] = "closed"
    /\ chan[ws] = None
    /\ sock' = [sock EXCEPT ![ws] = "gone"]
    /\ active_connections' = DisconnectActive(active_connections, ws)
    /\ channels' = DisconnectChannels(channels, ws, None)
    /\ bc' = IF ws \in active_connections THEN Touch(bc) ELSE bc
    /\ UNCHANGED <<service, flightVars, refreshVars, cacheVars, watcherVars, viewerVars, chan, connected_clients>>

\* ConnectionManager.broadcast up to its first suspension.
BroadcastStart(channel) ==
    /\ service = "fastapi"
    /\ bc.pc # "sending"
    /\ IF Targets(channel) = {}
       THEN bc' = [NewBroadcast(channel, {}, active_connections) EXCEPT !.pc = "returned"]
       ELSE \E ws \in Targets(channel) :
               bc' = Deliver(NewBroadcast(channel, Targets(channel), active_connections), ws)
    /\ UNCHANGED <<service, flightVars, refreshVars, cacheVars, watcherVars, viewerVars, sock, chan, active_connections, channels,
                   connected_clients>>

\* ConnectionManager.broadcast resumed after a send.  The loop iterates the
\* live set: the set iterator raises RuntimeError when the set changed size
\* (the exception leaves broadcast, nothing is pruned), yields a member not yet
\* yielded, or is exhausted once every member it started with has been yielded
\* or removed; a member added meanwhile may be yielded or passed over.  No
\* member is yielded twice: each socket is inserted once, and CPython does not
\* rebuild a set's table of 8 slots before the fifth insertion.  Exhaustion,
\* the pruning loop and the return run without
\* suspension.
BroadcastNext ==
    /\ service = "fastapi"
    /\ bc.pc = "sending"
    /\ \/ /\ Cardinality(Targets(bc.channel)) # Cardinality(bc.start)
          /\ bc' = [bc EXCEPT !.pc = "raised"]
          /\ UNCHANGED <<active_connections, channels>>
       \/ /\ Cardinality(Targets(bc.channel)) = Cardinality(bc.start)
          /\ \E ws \in Targets(bc.channel) \ bc.visited : bc' = Deliver(bc, ws)
          /\ UNCHANGED <<active_connections, channels>>
       \/ /\ Cardinality(Targets(bc.channel)) = Cardinality(bc.start)
          /\ (Targets(bc.channel) \cap bc.start) \ bc.visited = {}
          /\ active_connections' = PruneActive(active_connections, bc.dead_connections)
          /\ channels' = PruneChannels(channels, bc.dead_connections, bc.channel)
          /\ bc' = [bc EXCEPT !.pc = "returned"]
    /\ UNCHANGED <<service, flightVars, refreshVars, cacheVars, watcherVars, viewerVars, sock, chan, connected_clients>>

\* app.py ws_endpoint: a client connects.
WsEndpointConnect(ws) ==
    /\ service = "dash"
    /\ NextSocket(ws)
    /\ sock' = [sock EXCEPT ![ws] = "open"]
    /\ connected_clients' = connected_clients \cup {ws}
    /\ bc' = Touch(bc)
    /\ UNCHANGED <<service, flightVars, refreshVars, cacheVars, watcherVars, viewerVars, chan, active_connections, channels>>

\* app.py ws_endpoint: the handler is cancelled and its finally clause runs.
WsEndpointExit(ws) ==
    /\ service = "dash"
    /\ sock[ws] = "closed"
    /\ sock' = [sock EXCEPT ![ws] = "gone"]
    /\ connected_clients' = connected_clients \ {ws}
    /\ bc' = IF ws \in connected_clients THEN Touch(bc) ELSE bc
    /\ UNCHANGED <<service, flightVars, refreshVars, cacheVars, watcherVars, viewerVars, chan, active_connections, channels>>

\* The client is discarded when its send raised.
DiscardFailed(clients, ws) == IF SendRaises(ws) THEN clients \ {ws} ELSE clients

\* broadcast_new_images up to its first suspension.
BroadcastNewImagesStart ==
    /\ service = "dash"
    /\ bc.pc # "sending"
    /\ IF connected_clients = {}
       THEN /\ bc' = [NewBroadcast(None, {}, {}) EXCEPT !.pc = "returned"]
            /\ UNCHANGED connected_clients
       ELSE \E ws \in connected_clients :
               /\ bc' = DeliverDash(NewBroadcast(None, connected_clients, connected_clients), ws)
               /\ connected_clients' = DiscardFailed(connected_clients, ws)
    /\ UNCHANGED <<service, flightVars, refreshVars, cacheVars, watcherVars, viewerVars, sock, chan, active_connections, channels>>

\* broadcast_new_images resumed after a send: the next client of the snapshot.
BroadcastNewImagesNext ==
    /\ service = "dash"
    /\ bc.pc = "sending"
    /\ IF bc.start \ bc.visited = {}
       THEN /\ bc' = [bc EXCEPT !.pc = "returned"]
            /\ UNCHANGED connected_clients
       ELSE \E ws \in bc.start \ bc.visited :
               /\ bc' = DeliverDash(bc, ws)
               /\ connected_clients' = DiscardFailed(connected_clients, ws)
    /\ UNCHANGED <<service, flightVars, refreshVars, cacheVars, watcherVars, viewerVars, sock, chan, active_connections, channels>>

\* Broadcast coroutines the watcher has scheduled on the event loop.
MaxTasks == 2

\* The orders in which a set can be iterated.
Orders(S) ==
    {f \in [1..Cardinality(S) -> S] : \A i, j \in 1..Cardinality(S) : i # j => f[i] # f[j]}

\* await client.send(message) of task t: the message is queued on the
\* client's connection behind what was sent to it before, and the
\* coroutine is suspended until the send completes.
RelaySend(r, t, ws) ==
    [r EXCEPT !.inbox[ws] = Append(@, t),
              !.tasks[t].pc = "awaiting",
              !.tasks[t].at = ws]

\* app.py ws_endpoint: a client connects while broadcasts may be suspended.
\* Adding to a set can rebuild its table, so the order in which
\* connected_clients is iterated afterwards is any order.
RelayConnect(ws, order) ==
    /\ service = "dash"
    /\ ws \notin connected_clients
    /\ order \in Orders(connected_clients \cup {ws})
    /\ connected_clients' = connected_clients \cup {ws}
    /\ relay' = [relay EXCEPT !.listing = order]
    /\ UNCHANGED <<service, in_flight, loaded, pair, watcher, refreshVars, cacheVars, watcherVars, viewerVars,
                   sock, chan, active_connections, channels, bc>>

\* The event loop starts the next coroutine of broadcast_new_images: it
\* returns at once with no client, else it takes list(connected_clients) and
\* runs up to its first send.
RelayStart ==
    /\ service = "dash"
    /\ Len(relay.tasks) < MaxTasks
    /\ LET t == Len(relay.tasks) + 1
           task == [todo |-> relay.listing, next |-> 1, pc |-> "done", at |-> 0]
           r == [relay EXCEPT !.tasks = Append(@, task)]
       IN relay' = IF connected_clients = {} THEN r ELSE RelaySend(r, t, relay.listing[1])
    /\ UNCHANGED <<service, in_flight, loaded, pair, watcher, refreshVars, cacheVars, watcherVars, viewerVars,
                   bcastVars>>

\* The send a coroutine awaits completes (ok) or raises, and the coroutine
\* runs on to its next send or to its end.  Sends on one connection complete
\* in the order they were made.
RelayResume(t, ok) ==
    /\ service = "dash"
    /\ t \in 1..Len(relay.tasks)
    /\ relay.tasks[t].pc = "awaiting"
    /\ \A u \in 1..Len(relay.tasks) :
          (relay.tasks[u].pc = "awaiting" /\ relay.tasks[u].at = relay.tasks[t].at)
             => LET inbox == relay.inbox[relay.tasks[t].at]
                IN (CHOOSE i \in 1..Len(inbox) : inbox[i] = t)
                      <= (CHOOSE i \in 1..Len(inbox) : inbox[i] = u)
    /\ LET task == relay.tasks[t]
           ws == task.at
           r == [relay EXCEPT !.tasks[t].next = @ + 1,
                              !.tasks[t].pc = "done",
                              !.tasks[t].at = 0,
                              !.listing = IF ok THEN @
                                          ELSE SelectSeq(@, LAMBDA c : c # ws)]
       IN /\ connected_clients' = IF ok THEN connected_clients ELSE connected_clients \ {ws}
          /\ relay' = IF task.next < Len(task.todo)
                      THEN RelaySend(r, t, task.todo[task.next + 1])
                      ELSE r
    /\ UNCHANGED <<service, in_flight, loaded, pair, watcher, refreshVars, cacheVars, watcherVars, viewerVars,
                   sock, chan, active_connections, channels, bc>>

----------------------------------------------------------------------------
(* Reconciler: the callbacks of one viewer *)

MaxEvents == 17
MaxBatch == 2
\* Rows announced beyond one per change event.
MaxExtraRows == 2

\* existing_events[:14]
KeepOld == 14

\* Change events handled by a viewer whose displays are modelled.
MaxLive == 2

\* The ids of the properties the callbacks below take as Input.
CallbackInputs ==
    [update_umap_and_data |-> {"patch-dropdown", "coord-dropdown", "update-umap-btn"},
     update_time_series |-> {"patch-dropdown", "coord-dropdown", "ws", "update-umap-btn"},
     update_table |-> {"umap-plot", "reset-selection-btn", "data-store", "ws"},
     update_live_stats |-> {"ws"},
     send_new_data_notification |-> {"ws-message-store"},
     filter_by_time_range |-> {"timeseries-plot"}]

\* Mutant of Inputs: the projection callback also listens to the WebSocket.
InputsWithWs(cb) ==
    IF cb = "update_umap_and_data" THEN CallbackInputs[cb] \cup {"ws"} ELSE CallbackInputs[cb]

\* The Input list of a callback.
Inputs(cb) == CallbackInputs[cb]

\* The callbacks a changed property triggers, with the ctx.triggered_id each sees.
Dispatch(id) ==
    {[cb |-> cb, triggered_id |-> id] : cb \in {c \in DOMAIN CallbackInputs : id \in Inputs(c)}}

\* The message of notify_new_images / broadcast_new_images for one change
\* event, as the viewer's WebSocket component holds it after JSON.parse.
NotifyMessage(ev) ==
    [type |-> "new_image", count |-> ev.count, total |-> ev.total,
     images |-> ev.images, rows |-> ev.rows]

\* A well-formed message of a kind the viewer does not know.
StatusMessage(total) ==
    [type |-> "status", count |-> 0, total |-> total, images |-> <<>>, rows |-> <<>>]

\* Rows announced to the viewer so far.
Announced == IF ws_message = <<>> THEN InitRows ELSE ws_message[1].total

\* Clientside handler of ws.message: a new_image message is copied to
\* ws-message-store, which triggers update_event_log; any other is dropped.
\* The next message is handled once the triggered callback has run.
OnWsMessage(kind, n) ==
    /\ ~triggered
    /\ LET msg == IF kind = "new_image"
                  THEN NotifyMessage(ChangeEvent(Rows(Announced + n), n, Announced + n))
                  ELSE StatusMessage(Announced)
       IN /\ kind = "new_image"
             => /\ Len(handled) < MaxEvents
                /\ Announced + n <= InitRows + Len(handled) + 1 + MaxExtraRows
          /\ ws_message' = <<msg>>
          /\ IF msg.type = "new_image"
             THEN /\ ws_message_store' =
                       <<[count |-> msg.count, total |-> msg.total, timestamp |-> now,
                          images |-> msg.images, rows |-> msg.rows]>>
                  /\ triggered' = TRUE
                  /\ dispatched' = dispatched \cup Dispatch("ws") \cup Dispatch("ws-message-store")
             ELSE /\ dispatched' = dispatched \cup Dispatch("ws")
                  /\ UNCHANGED <<ws_message_store, triggered>>
    /\ UNCHANGED <<service, flightVars, cacheVars, watcherVars, bcastVars, freeze_toggle, event_log_store,
                   event_count_badge, pending_update_store, pending_badge, new_rows_store,
                   handled, patch_dropdown, coord_dropdown, selected_data, relayout_data,
                   data_store, umap_plot, data_table, timeseries_plot, stats_display,
                   notification, notified>>

\* The viewer flips the freeze switch.
ToggleFreeze ==
    /\ freeze_toggle' = ~freeze_toggle
    /\ UNCHANGED <<service, flightVars, refreshVars, cacheVars, watcherVars, bcastVars, ws_message, ws_message_store,
                   event_log_store, event_count_badge, pending_update_store, pending_badge,
                   new_rows_store, triggered, handled>>

\* new_row_filenames = [img.get('filename', '') for img in images]
NewRowFilenames(images) == [k \in 1..Len(images) |-> images[k].filename]

\* Mutant of NewEventData: the new entry is not flagged.
NewEventDataUnflagged(ws_data) ==
    [count |-> ws_data.count, total |-> ws_data.total, timestamp |-> now,
     images |-> ws_data.images, is_new |-> FALSE]

\* new_event_data
NewEventData(ws_data) ==
    [count |-> ws_data.count, total |-> ws_data.total, timestamp |-> now,
     images |-> ws_data.images, is_new |-> TRUE]

\* Mutant of AllEvents: one entry too many is kept.
AllEventsKeepOneMore(new_event_data, existing_events) ==
    <<new_event_data>> \o
        [k \in 1..Min(KeepOld + 1, Len(existing_events)) |->
            [existing_events[k] EXCEPT !.is_new = FALSE]]

\* all_events: the old entries are unflagged, the first 14 kept behind the new one.
AllEvents(new_event_data, existing_events) ==
    <<new_event_data>> \o
        [k \in 1..Min(KeepOld, Len(existing_events)) |->
            [existing_events[k] EXCEPT !.is_new = FALSE]]

\* Mutant of PendingUpdate: the flag is raised whether frozen or not.
PendingUpdateAlways(frozen) == TRUE

\* The value update_event_log returns for pending-update-store.
PendingUpdate(frozen) == ~frozen

\* update_event_log, run for the changed ws-message-store.
UpdateEventLog ==
    /\ triggered
    /\ triggered' = FALSE
    /\ IF ws_message_store = <<>>
       THEN UNCHANGED <<event_log_store, event_count_badge, pending_update_store,
                        pending_badge, new_rows_store, handled>>
       ELSE LET ws_data == ws_message_store[1]
                all_events == AllEvents(NewEventData(ws_data), event_log_store)
            IN /\ event_log_store' = all_events
               /\ event_count_badge' = Len(all_events)
               /\ pending_update_store' = PendingUpdate(freeze_toggle)
               /\ pending_badge' = "inline-block"
               /\ new_rows_store' = NewRowFilenames(ws_data.images)
               /\ handled' = Append(handled, ws_data)
    /\ UNCHANGED <<service, flightVars, refreshVars, cacheVars, watcherVars, bcastVars, ws_message, ws_message_store,
                   freeze_toggle>>

\* Requests of update_event_log the renderer has in flight at once.
MaxInFlight == 2

\* Events of one burst of file growth.
MaxBurst == 3

\* A new_image message arrives whether or not an earlier request is
\* answered: the clientside handler sets ws-message-store and the renderer
\* sends the request of update_event_log with the State values the page
\* holds at that moment.
RequestEventLog(n) ==
    /\ Len(in_flight) < MaxInFlight
    /\ Len(handled) + Len(in_flight) < MaxBurst
    /\ LET msg == NotifyMessage(ChangeEvent(Rows(Announced + n), n, Announced + n))
           ws_data == [count |-> msg.count, total |-> msg.total, timestamp |-> now,
                       images |-> msg.images, rows |-> msg.rows]
       IN /\ ws_message' = <<msg>>
          /\ ws_message_store' = <<ws_data>>
          /\ in_flight' = Append(in_flight,
                 [ws_data |-> ws_data, existing_events |-> event_log_store,
                  frozen |-> freeze_toggle])
    /\ UNCHANGED <<service, loaded, relay, pair, watcher, refreshVars, cacheVars, watcherVars, bcastVars, freeze_toggle,
                   event_log_store, event_count_badge, pending_update_store, pending_badge,
                   new_rows_store, triggered, handled>>

\* The answer of the oldest request arrives and the renderer sets the
\* outputs update_event_log returned for the arguments it was sent.
AnswerEventLog ==
    /\ in_flight # <<>>
    /\ LET req == Head(in_flight)
           all_events == AllEvents(NewEventData(req.ws_data), req.existing_events)
       IN /\ event_log_store' = all_events
          /\ event_count_badge' = Len(all_events)
          /\ pending_update_store' = PendingUpdate(req.frozen)
          /\ pending_badge' = "inline-block"
          /\ new_rows_store' = NewRowFilenames(req.ws_data.images)
          /\ handled' = Append(handled, req.ws_data)
    /\ in_flight' = Tail(in_flight)
    /\ UNCHANGED <<service, loaded, relay, pair, watcher, refreshVars, cacheVars, watcherVars, bcastVars, ws_message,
                   ws_message_store, freeze_toggle, triggered>>

----------------------------------------------------------------------------
(* The frames the callbacks load *)

\* int(coordinate) of a value of coord-dropdown.
CoordInt(coordinate) == IF coordinate = "0" THEN 0 ELSE 1

\* df[df['pos'] == coordinate_int]
FilterPos(df, coordinate) == SelectSeq(df, LAMBDA row : row.pos = CoordInt(coordinate))

\* get_image_dataframe: the rows of the coordinate whose image is on disk
\* (every image is).
GetImageDataframe(df, patch_type, coordinate) == FilterPos(df, coordinate)

\* The DataFrame index of a row, which is also the order of its timestamp.
RowId(row) == row.patches_2d_ch0_tl_exp_path[2]

----------------------------------------------------------------------------
(* ProjectionCache: cache.memoize over the Flask-Caching backend *)

\* Request threads that may be inside a memoized lookup at once.
NumRequests == 2
\* Lookups whose course the history records.
MaxLookups == 2
MaxCacheTime == 2

\* @cache.memoize(timeout=3600), in hours
memoize_timeout == 1

Requests == 1..NumRequests
PatchTypes == {"ch0_tl_exp"}
Coordinates == {"0", "1"}

\* The digits of a natural number, as str() and an f-string write it.
Digits == <<"0", "1", "2", "3", "4", "5", "6", "7", "8", "9">>

RECURSIVE Str(_)
Str(n) == IF n < 10 THEN <<Digits[n + 1]>> ELSE Str(n \div 10) \o <<Digits[(n % 10) + 1]>>

\* Mutant of MainKey: the key carries the total of the latest event instead
\* of the count of the rows just loaded.
MainKeyOfAnnounced(patch_type, coordinate, filtered_df) ==
    <<"umap_", patch_type, "_">> \o Str(CoordInt(coordinate)) \o <<"_">> \o Str(Announced)

\* cache_key = f"umap_{patch_type}_{coordinate}_{len(filtered_df)}", coordinate an int
MainKey(patch_type, coordinate, filtered_df) ==
    <<"umap_", patch_type, "_">> \o Str(CoordInt(coordinate)) \o <<"_">> \o Str(Len(filtered_df))

\* cache_key = f"umap_{patch_type}_{coordinate}_{start_time.isoformat()}_{end_time.isoformat()}"
RangeKey(patch_type, coordinate, start_time, end_time) ==
    <<"umap_", patch_type, "_", coordinate, "_">> \o Str(start_time) \o <<"_">> \o Str(end_time)

\* cache_key = f"umap_{patch_type}_{coordinate}_full_reset"
ResetKey(patch_type, coordinate) == <<"umap_", patch_type, "_", coordinate, "_full_reset">>

\* repr(df_subset), which memoize hashes with the other arguments: every row
\* of a frame of at most 60 rows, else the first and last five and the shape.
Repr(df) ==
    IF Len(df) <= 60 THEN [rows |-> df, shape |-> <<>>]
    ELSE [rows |-> SubSeq(df, 1, 5) \o SubSeq(df, Len(df) - 4, Len(df)), shape |-> <<Len(df)>>]

\* The key memoize stores a call under: the function and its arguments.
MemoKey(fname, key, df_subset) == <<fname, key, Repr(df_subset)>>

\* cache.get finds an entry that has not expired.
CacheHas(store, mk) == mk \in DOMAIN store /\ store[mk].expires >= cache_clock

\* cache.set(cache_key, rv, timeout)
CacheSet(store, mk, rv) ==
    [k \in DOMAIN store \cup {mk} |->
        IF k = mk THEN [value |-> rv, expires |-> cache_clock + memoize_timeout] ELSE store[k]]

\* get_cached_umap's body: the embedding and clusters of the rows it is given.
Compute(df_subset) == [embedding |-> df_subset, clusters |-> Len(df_subset)]

\* Mutant of StoreResult: a failed computation is remembered under the key.
StoreResultOrFailure(store, mk, ok, df_subset) ==
    IF ok THEN CacheSet(store, mk, Compute(df_subset))
    ELSE CacheSet(store, mk, [embedding |-> <<>>, clusters |-> -1])

\* memoize after the call: the value is stored, an exception leaves the
\* backend alone and propagates.
StoreResult(store, mk, ok, df_subset) ==
    IF ok THEN CacheSet(store, mk, Compute(df_subset)) ELSE store

\* The rows of stored_data whose timestamp lies in the selected range.
TimeFiltered(stored_data, start_time, end_time) ==
    SelectSeq(stored_data, LAMBDA row : start_time <= RowId(row) /\ RowId(row) <= end_time)

\* The function, the key and the rows of the lookup a callback makes.
LookupOf(kind, patch_type, coordinate, stored_data, start_time, end_time) ==
    IF kind = "main"
    THEN [fname |-> "update_umap_and_data.get_cached_umap",
          key |-> MainKey(patch_type, coordinate,
                          GetImageDataframe(csv, patch_type, coordinate)),
          df |-> GetImageDataframe(csv, patch_type, coordinate)]
    ELSE IF kind = "range"
    THEN [fname |-> "filter_by_time_range.get_cached_umap",
          key |-> RangeKey(patch_type, coordinate, start_time, end_time),
          df |-> TimeFiltered(stored_data, start_time, end_time)]
    ELSE [fname |-> "filter_by_time_range.get_cached_umap_reset",
          key |-> ResetKey(patch_type, coordinate),
          df |-> IF coordinate # None THEN FilterPos(csv, coordinate) ELSE csv]

\* The lookups that had ended when a new one begins.
Ended == {i \in 1..Len(lookups) : lookups[i].outcome # "pending"}

\* A request thread enters the memoized function: cache.get, and on a hit
\* the stored value is returned.
LookupStart(w, kind, patch_type, coordinate, stored_rows, start_time, end_time) ==
    /\ requests[w].pc = "idle"
    /\ Len(lookups) < MaxLookups
    /\ kind \in {"main", "range"} => coordinate # None
    /\ LET l == LookupOf(kind, patch_type, coordinate,
                         GetImageDataframe(Rows(stored_rows), patch_type, coordinate),
                         start_time, end_time)
           mk == MemoKey(l.fname, l.key, l.df)
           entry == [w |-> w, kind |-> kind, dims |-> <<patch_type, coordinate>>,
                     fname |-> l.fname, key |-> l.key, df |-> l.df, after |-> Ended]
       IN /\ Len(l.df) > 0
          /\ IF CacheHas(cache_store, mk)
             THEN /\ lookups' = Append(lookups,
                        [outcome |-> "hit", value |-> cache_store[mk].value] @@ entry)
                  /\ UNCHANGED requests
             ELSE /\ lookups' = Append(lookups,
                        [outcome |-> "pending", value |-> Compute(<<>>)] @@ entry)
                  /\ requests' = [requests EXCEPT ![w] =
                        [pc |-> "miss", lookup |-> Len(lookups) + 1]]
    /\ UNCHANGED <<service, flightVars, watcherVars, bcastVars, viewerVars, refreshVars, cache_store,
                   cache_clock>>

\* The thread runs the function after a miss and memoize stores what it returned.
LookupCompute(w, ok) ==
    /\ requests[w].pc = "miss"
    /\ LET i == requests[w].lookup
           mk == MemoKey(lookups[i].fname, lookups[i].key, lookups[i].df)
       IN /\ cache_store' = StoreResult(cache_store, mk, ok, lookups[i].df)
          /\ lookups' = [lookups EXCEPT ![i].outcome = IF ok THEN "computed" ELSE "raised",
                                        ![i].value = IF ok THEN Compute(lookups[i].df) ELSE @]
    /\ requests' = [requests EXCEPT ![w] = [pc |-> "idle", lookup |-> 0]]
    /\ UNCHANGED <<service, flightVars, watcherVars, bcastVars, viewerVars, refreshVars, cache_clock>>

\* An hour passes.
CacheTick ==
    /\ cache_clock < MaxCacheTime
    /\ cache_clock' = cache_clock + 1
    /\ UNCHANGED <<service, flightVars, watcherVars, bcastVars, viewerVars, refreshVars, cache_store,
                   requests, lookups>>

----------------------------------------------------------------------------
(* Viewer: the callbacks that refresh the displayed data *)

\* df.sort_values('timestamp', ascending=False) of rows kept in file order.
SortNewestFirst(df) == [k \in 1..Len(df) |-> df[Len(df) - k + 1]]

\* img.get('patch_path', '')
PatchPath(img) == IF "patch_path" \in DOMAIN img THEN img.patch_path ELSE <<>>

\* ws_new_filenames of a parsed message, as a set.
WsNewFilenames(msg) == {PatchPath(msg.images[k]) : k \in 1..Len(msg.images)}

\* return [], [], "0 rows"
EmptyTable == [rowData |-> <<>>, columnDefs |-> "empty", row_count |-> <<0, 0, 0>>]

\* The rows update_table shows of df.
SelectedDf(triggered_id, df, selected) ==
    IF triggered_id \in {"ws", "reset-selection-btn"} THEN SortNewestFirst(df)
    ELSE IF selected # <<>> THEN [k \in 1..Len(selected) |-> df[selected[k] + 1]]
    ELSE SortNewestFirst(df)

\* table_data, column_defs and row_count of update_table.
TableOf(triggered_id, df, new_rows_set, selected, columns) ==
    LET selected_df == SelectedDf(triggered_id, df, selected)
        table_data == [k \in 1..Len(selected_df) |->
                          [row |-> selected_df[k],
                           is_new |-> selected_df[k].patches_2d_ch0_tl_exp_path \in new_rows_set]]
    IN [rowData |-> table_data, columnDefs |-> columns,
        row_count |-> <<Len(table_data), Len(df),
                        Cardinality({k \in 1..Len(table_data) : table_data[k].is_new})>>]

\* update_table: the value of data-table afterwards (`current` on no_update and
\* when df.iloc raises).
UpdateTable(triggered_id, selected, stored_data, ws_msg, coordinate, frozen, current) ==
    IF triggered_id = "ws" /\ ws_msg # <<>> /\ coordinate # None
    THEN IF frozen THEN current
         ELSE IF ws_msg[1].type # "new_image" THEN current
         ELSE IF Len(FilterPos(csv, coordinate)) > 0
              THEN TableOf(triggered_id, FilterPos(csv, coordinate),
                           WsNewFilenames(ws_msg[1]), selected, "fresh")
              ELSE EmptyTable
    ELSE IF stored_data # <<>>
         THEN IF \E k \in 1..Len(selected) : selected[k] >= Len(stored_data)
              THEN current
              ELSE TableOf(triggered_id, stored_data, {}, selected, "umap")
         ELSE EmptyTable

\* return go.Figure(), None
EmptyFigure == [points |-> <<>>, new |-> {}, title |-> <<>>, total_points |-> 0]

\* update_time_series: the value of timeseries-plot and timeseries-store afterwards.
UpdateTimeSeries(triggered_id, patch_type, coordinate, ws_msg, frozen, current) ==
    IF triggered_id = "ws" /\ ws_msg # <<>> /\ frozen THEN current
    ELSE IF triggered_id = "ws" /\ ws_msg # <<>> /\ ws_msg[1].type # "new_image" THEN current
    ELSE IF coordinate = None THEN EmptyFigure
    ELSE LET df == FilterPos(csv, coordinate)
             new_rows_set == IF triggered_id = "ws" /\ ws_msg # <<>>
                             THEN WsNewFilenames(ws_msg[1]) ELSE {}
         IN IF Len(df) = 0 THEN EmptyFigure
            ELSE [points |-> df,
                  new |-> {k \in 1..Len(df) :
                              df[k].patches_2d_ch0_tl_exp_path \in new_rows_set},
                  title |-> <<patch_type, coordinate>>,
                  total_points |-> Len(df)]

\* update_live_stats: the value of stats-display afterwards.
UpdateLiveStats(ws_msg, coordinate, frozen, current) ==
    IF ws_msg = <<>> \/ coordinate = None \/ frozen THEN current
    ELSE IF ws_msg[1].type # "new_image" THEN current
    ELSE IF Len(FilterPos(csv, coordinate)) = 0 THEN current
    ELSE [kind |-> "LIVE", total |-> Len(FilterPos(csv, coordinate))]

\* Mutant of NewDataNotification: nothing is announced while frozen.
NewDataNotificationUnlessFrozen(ws_data, frozen) ==
    IF frozen THEN <<>>
    ELSE <<[id |-> ws_data.total, title |-> "New Data Received", count |-> ws_data.count,
            color |-> "green"]>>

\* send_new_data_notification: the notifications it returns for an event.
NewDataNotification(ws_data, frozen) ==
    <<[id |-> ws_data.total,
       title |-> IF frozen THEN "New Data (Paused)" ELSE "New Data Received",
       count |-> ws_data.count,
       color |-> IF frozen THEN "orange" ELSE "green"]>>

\* The figure of px.scatter over umap_df.
UmapFigure(patch_type, coordinate, df, rv) ==
    [title |-> <<patch_type, coordinate>>, rows |-> df, embedding |-> rv.embedding]

\* A go.Figure() that carries a title only.
EmptyUmapFigure(title) == [title |-> <<title>>, rows |-> <<>>, embedding |-> <<>>]

\* The viewer has no callback of a ws message left to run.
WsQuiet == ~triggered /\ dispatched \cap (Dispatch("ws") \cup Dispatch("ws-message-store")) = {}

\* The viewer acts on a page that has settled.
Settled == ~triggered /\ dispatched = {}

\* A message arrives over the WebSocket of a viewer whose displays are followed.
LiveWsMessage(kind, n) ==
    /\ WsQuiet
    /\ Len(handled) < MaxLive
    /\ kind = "new_image" => Announced + n <= Len(csv)
    /\ OnWsMessage(kind, n)

\* The viewer picks a coordinate, or deselects the one picked.
SelectCoordinate(coordinate) ==
    /\ Settled
    /\ coordinate # coord_dropdown
    /\ coord_dropdown' = coordinate
    /\ dispatched' = dispatched \cup Dispatch("coord-dropdown")
    /\ UNCHANGED <<service, flightVars, watcherVars, bcastVars, viewerVars, cacheVars, patch_dropdown,
                   selected_data, relayout_data, data_store, umap_plot, data_table,
                   timeseries_plot, stats_display, notification, notified>>

\* The viewer presses the update button.
ClickUpdate ==
    /\ Settled
    /\ dispatched' = dispatched \cup Dispatch("update-umap-btn")
    /\ UNCHANGED <<service, flightVars, watcherVars, bcastVars, viewerVars, cacheVars, patch_dropdown,
                   coord_dropdown, selected_data, relayout_data, data_store, umap_plot,
                   data_table, timeseries_plot, stats_display, notification, notified>>

\* The viewer selects points of the projection, or clears the selection.
SelectPoints(selected) ==
    /\ Settled
    /\ selected # selected_data
    /\ \A k \in 1..Len(selected) : selected[k] < Len(umap_plot.rows)
    /\ selected_data' = selected
    /\ dispatched' = dispatched \cup Dispatch("umap-plot")
    /\ UNCHANGED <<service, flightVars, watcherVars, bcastVars, viewerVars, cacheVars, patch_dropdown,
                   coord_dropdown, relayout_data, data_store, umap_plot, data_table,
                   timeseries_plot, stats_display, notification, notified>>

\* The viewer selects a time range on the time series, or resets it.
Relayout(kind, start_time, end_time) ==
    /\ Settled
    /\ relayout_data' = [kind |-> kind, start |-> start_time, end |-> end_time]
    /\ dispatched' = dispatched \cup Dispatch("timeseries-plot")
    /\ UNCHANGED <<service, flightVars, watcherVars, bcastVars, viewerVars, cacheVars, patch_dropdown,
                   coord_dropdown, selected_data, data_store, umap_plot, data_table,
                   timeseries_plot, stats_display, notification, notified>>

\* update_table runs.
RunUpdateTable ==
    /\ \E d \in dispatched :
          /\ d.cb = "update_table"
          /\ data_table' = UpdateTable(d.triggered_id, selected_data, data_store, ws_message,
                                       coord_dropdown, freeze_toggle, data_table)
          /\ dispatched' = dispatched \ {d}
    /\ UNCHANGED <<service, flightVars, watcherVars, bcastVars, viewerVars, cacheVars, patch_dropdown,
                   coord_dropdown, selected_data, relayout_data, data_store, umap_plot,
                   timeseries_plot, stats_display, notification, notified>>

\* update_time_series runs.
RunUpdateTimeSeries ==
    /\ \E d \in dispatched :
          /\ d.cb = "update_time_series"
          /\ timeseries_plot' = UpdateTimeSeries(d.triggered_id, patch_dropdown, coord_dropdown,
                                                 ws_message, freeze_toggle, timeseries_plot)
          /\ dispatched' = dispatched \ {d}
    /\ UNCHANGED <<service, flightVars, watcherVars, bcastVars, viewerVars, cacheVars, patch_dropdown,
                   coord_dropdown, selected_data, relayout_data, data_store, umap_plot,
                   data_table, stats_display, notification, notified>>

\* update_live_stats runs.
RunUpdateLiveStats ==
    /\ \E d \in dispatched :
          /\ d.cb = "update_live_stats"
          /\ stats_display' = UpdateLiveStats(ws_message, coord_dropdown, freeze_toggle,
                                              stats_display)
          /\ dispatched' = dispatched \ {d}
    /\ UNCHANGED <<service, flightVars, watcherVars, bcastVars, viewerVars, cacheVars, patch_dropdown,
                   coord_dropdown, selected_data, relayout_data, data_store, umap_plot,
                   data_table, timeseries_plot, notification, notified>>

\* send_new_data_notification runs.
RunSendNewDataNotification ==
    /\ \E d \in dispatched :
          /\ d.cb = "send_new_data_notification"
          /\ dispatched' = dispatched \ {d}
          /\ IF ws_message_store = <<>>
             THEN UNCHANGED <<notification, notified>>
             ELSE /\ notification' = NewDataNotification(ws_message_store[1], freeze_toggle)
                  /\ notified' = IF NewDataNotification(ws_message_store[1], freeze_toggle) = <<>>
                                 THEN notified ELSE Append(notified, ws_message_store[1])
    /\ UNCHANGED <<service, flightVars, watcherVars, bcastVars, viewerVars, cacheVars, patch_dropdown,
                   coord_dropdown, selected_data, relayout_data, data_store, umap_plot,
                   data_table, timeseries_plot, stats_display>>

\* update_umap_and_data runs; `ok` is whether the projection computes if the
\* lookup misses.  An exception fails the callback and no output is set.
RunUpdateUmapAndData(ok) ==
    /\ \E d \in dispatched :
          /\ d.cb = "update_umap_and_data"
          /\ LET filtered_df == GetImageDataframe(csv, patch_dropdown, coord_dropdown)
                 l == LookupOf("main", patch_dropdown, coord_dropdown, <<>>, 0, 0)
                 mk == MemoKey(l.fname, l.key, l.df)
             IN IF patch_dropdown = None \/ coord_dropdown = None
                THEN /\ umap_plot' = EmptyUmapFigure("Select patch type and coordinate")
                     /\ data_store' = <<>>
                     /\ stats_display' = [kind |-> "No data selected", total |-> 0]
                     /\ pending_update_store' = FALSE
                     /\ pending_badge' = "none"
                     /\ dispatched' = (dispatched \ {d}) \cup Dispatch("data-store")
                     /\ UNCHANGED cache_store
                ELSE IF Len(filtered_df) = 0
                THEN /\ umap_plot' = EmptyUmapFigure("No data available")
                     /\ data_store' = <<>>
                     /\ stats_display' = [kind |-> "No images found", total |-> 0]
                     /\ pending_update_store' = FALSE
                     /\ pending_badge' = "none"
                     /\ dispatched' = (dispatched \ {d}) \cup Dispatch("data-store")
                     /\ UNCHANGED cache_store
                ELSE IF ~CacheHas(cache_store, mk) /\ ~ok
                THEN /\ dispatched' = dispatched \ {d}
                     /\ UNCHANGED <<umap_plot, data_store, stats_display, pending_update_store,
                                    pending_badge, cache_store>>
                ELSE /\ umap_plot' = UmapFigure(patch_dropdown, coord_dropdown, filtered_df,
                            IF CacheHas(cache_store, mk) THEN cache_store[mk].value
                            ELSE Compute(filtered_df))
                     /\ data_store' = filtered_df
                     /\ stats_display' = [kind |-> "UMAP", total |-> Len(filtered_df)]
                     /\ pending_update_store' = FALSE
                     /\ pending_badge' = "none"
                     /\ dispatched' = (dispatched \ {d}) \cup Dispatch("data-store")
                     /\ cache_store' = IF CacheHas(cache_store, mk) THEN cache_store
                                       ELSE StoreResult(cache_store, mk, TRUE, filtered_df)
    /\ UNCHANGED <<service, flightVars, watcherVars, bcastVars, ws_message, ws_message_store, freeze_toggle,
                   event_log_store, event_count_badge, new_rows_store, triggered, handled,
                   patch_dropdown, coord_dropdown, selected_data, relayout_data, data_table,
                   timeseries_plot, notification, notified, cache_clock, requests, lookups>>

\* update_umap_and_data starts: it takes its arguments and, with a patch type
\* and a coordinate, loads the file and filters it.  The projection it then
\* computes takes time, during which the file and the page go on.
StartRefresh ==
    /\ loaded = <<>>
    /\ \E d \in dispatched :
          /\ d.cb = "update_umap_and_data"
          /\ dispatched' = dispatched \ {d}
    /\ loaded' = <<[patch_type |-> patch_dropdown, coordinate |-> coord_dropdown,
                    df |-> IF patch_dropdown = None \/ coord_dropdown = None THEN <<>>
                           ELSE GetImageDataframe(csv, patch_dropdown, coord_dropdown)]>>
    /\ UNCHANGED <<service, in_flight, relay, pair, watcher, watcherVars, bcastVars, viewerVars, cacheVars,
                   patch_dropdown, coord_dropdown, selected_data, relayout_data, data_store,
                   umap_plot, data_table, timeseries_plot, stats_display, notification,
                   notified>>

\* update_umap_and_data returns what it computed from the rows it loaded and
\* the page sets its outputs; `ok` is whether the projection computes if the
\* lookup misses.
FinishRefresh(ok) ==
    /\ loaded # <<>>
    /\ loaded' = <<>>
    /\ LET run == loaded[1]
           mk == MemoKey("update_umap_and_data.get_cached_umap",
                         MainKey(run.patch_type, run.coordinate, run.df), run.df)
       IN IF run.patch_type = None \/ run.coordinate = None
          THEN /\ umap_plot' = EmptyUmapFigure("Select patch type and coordinate")
               /\ data_store' = <<>>
               /\ stats_display' = [kind |-> "No data selected", total |-> 0]
               /\ pending_update_store' = FALSE
               /\ pending_badge' = "none"
               /\ dispatched' = dispatched \cup Dispatch("data-store")
               /\ UNCHANGED cache_store
          ELSE IF Len(run.df) = 0
          THEN /\ umap_plot' = EmptyUmapFigure("No data available")
               /\ data_store' = <<>>
               /\ stats_display' = [kind |-> "No images found", total |-> 0]
               /\ pending_update_store' = FALSE
               /\ pending_badge' = "none"
               /\ dispatched' = dispatched \cup Dispatch("data-store")
               /\ UNCHANGED cache_store
          ELSE IF ~CacheHas(cache_store, mk) /\ ~ok
          THEN UNCHANGED <<umap_plot, data_store, stats_display, pending_update_store,
                           pending_badge, dispatched, cache_store>>
          ELSE /\ umap_plot' = UmapFigure(run.patch_type, run.coordinate, run.df,
                      IF CacheHas(cache_store, mk) THEN cache_store[mk].value
                      ELSE Compute(run.df))
               /\ data_store' = run.df
               /\ stats_display' = [kind |-> "UMAP", total |-> Len(run.df)]
               /\ pending_update_store' = FALSE
               /\ pending_badge' = "none"
               /\ dispatched' = dispatched \cup Dispatch("data-store")
               /\ cache_store' = IF CacheHas(cache_store, mk) THEN cache_store
                                 ELSE StoreResult(cache_store, mk, TRUE, run.df)
    /\ UNCHANGED <<service, in_flight, relay, pair, watcher, watcherVars, bcastVars, ws_message, ws_message_store,
                   freeze_toggle, event_log_store, event_count_badge, new_rows_store, triggered,
                   handled, patch_dropdown, coord_dropdown, selected_data, relayout_data,
                   data_table, timeseries_plot, notification, notified, cache_clock, requests,
                   lookups>>

\* filter_by_time_range runs.
RunFilterByTimeRange(ok) ==
    /\ \E d \in dispatched :
          /\ d.cb = "filter_by_time_range"
          /\ LET kind == IF relayout_data.kind = "range" THEN "range" ELSE "reset"
                 l == LookupOf(kind, patch_dropdown, coord_dropdown, data_store,
                               relayout_data.start, relayout_data.end)
                 mk == MemoKey(l.fname, l.key, l.df)
             IN IF relayout_data.kind \notin {"range", "autorange"} \/ data_store = <<>>
                THEN \* raise PreventUpdate
                     /\ dispatched' = dispatched \ {d}
                     /\ UNCHANGED <<umap_plot, data_store, cache_store>>
                ELSE IF Len(l.df) = 0
                THEN /\ umap_plot' = IF kind = "range"
                                     THEN EmptyUmapFigure("No data in selected time range")
                                     ELSE umap_plot
                     /\ dispatched' = (dispatched \ {d}) \cup Dispatch("data-store")
                     /\ UNCHANGED <<data_store, cache_store>>
                ELSE IF ~CacheHas(cache_store, mk) /\ ~ok
                THEN /\ dispatched' = dispatched \ {d}
                     /\ UNCHANGED <<umap_plot, data_store, cache_store>>
                ELSE /\ umap_plot' = UmapFigure(patch_dropdown, coord_dropdown, l.df,
                            IF CacheHas(cache_store, mk) THEN cache_store[mk].value
                            ELSE Compute(l.df))
                     /\ data_store' = l.df
                     /\ dispatched' = (dispatched \ {d}) \cup Dispatch("data-store")
                     /\ cache_store' = IF CacheHas(cache_store, mk) THEN cache_store
                                       ELSE StoreResult(cache_store, mk, TRUE, l.df)
    /\ UNCHANGED <<service, flightVars, watcherVars, bcastVars, viewerVars, patch_dropdown, coord_dropdown,
                   selected_data, relayout_data, data_table, timeseries_plot, stats_display,
                   notification, notified, cache_clock, requests, lookups>>

----------------------------------------------------------------------------

Init ==
    /\ service \in Services
    /\ csv = Rows(InitRows)
    /\ now = 0
    /\ last_count \in IF service = "fastapi" THEN {Len(csv), 0} ELSE {Len(csv)}
    /\ last_modified = 0
    /\ wpc = "idle"
    /\ current_count = 0
    /\ scheduled = <<>>
    /\ cycle = [before |-> last_count, observed |-> last_count, failed |-> FALSE]
    /\ history = [C0 |-> last_count, monotone |-> TRUE, rebased |-> FALSE]
    /\ signal \in [recording : BOOLEAN, pending : {FALSE}, orderly : {last_count = Len(csv)},
                    writes : {<<>>}, seen : {<<>>}]
    /\ sock = [ws \in Sockets |-> "new"]
    /\ chan = [ws \in Sockets |-> None]
    /\ active_connections = {}
    /\ channels = <<>>
    /\ connected_clients = {}
    /\ bc = [NewBroadcast(None, {}, {}) EXCEPT !.pc = "idle"]
    /\ ws_message = <<>>
    /\ ws_message_store = <<>>
    /\ freeze_toggle = FALSE
    /\ event_log_store = <<>>
    /\ event_count_badge = 0
    /\ pending_update_store = FALSE
    /\ pending_badge = "none"
    /\ new_rows_store = <<>>
    /\ triggered = FALSE
    /\ handled = <<>>
    /\ in_flight = <<>>
    /\ loaded = <<>>
    /\ relay = [listing |-> <<>>, tasks |-> <<>>, inbox |-> [ws \in Sockets |-> <<>>]]
    /\ pair = [dash |-> NewHandler(Len(csv)), fastapi |-> NewHandler(Len(csv))]
    /\ watcher = [observer |-> 0, threads |-> <<>>, last |-> "none"]
    /\ patch_dropdown = "ch0_tl_exp"
    /\ coord_dropdown = "0"
    /\ selected_data = <<>>
    /\ relayout_data = [kind |-> "none", start |-> 0, end |-> 0]
    /\ data_store = <<>>
    /\ umap_plot = EmptyUmapFigure("")
    /\ data_table = [rowData |-> <<>>, columnDefs |-> "", row_count |-> <<0, 0, 0>>]
    /\ timeseries_plot = EmptyFigure
    /\ stats_display = [kind |-> "Loading...", total |-> 0]
    /\ notification = <<>>
    /\ dispatched = {[cb |-> cb, triggered_id |-> None] :
                        cb \in {"update_umap_and_data", "update_time_series", "update_table"}}
    /\ notified = <<>>
    /\ cache_store = <<>>
    /\ cache_clock = 0
    /\ requests = [w \in Requests |-> [pc |-> "idle", lookup |-> 0]]
    /\ lookups = <<>>

NextWatcher ==
    \/ \E n \in 1..2 : AppendRows(n)
    \/ \E k \in 0..MaxRows : ResetCsv(k)
    \/ Tick
    \/ \E event \in FsEvents : OnModifiedSkip(event)
    \/ \E event \in FsEvents, ok \in BOOLEAN : OnModifiedDash(event, ok)
    \/ \E event \in FsEvents, ok \in BOOLEAN : OnModifiedCount(event, ok)
    \/ \E ok \in BOOLEAN : OnModifiedTail(ok)

\* The watcher with the history of writes and signals left unrecorded.
InitWatcher == Init /\ ~signal.recording

SpecWatcher == InitWatcher /\ [][NextWatcher]_vars

\* The two handlers watch one file side by side.
NextPair ==
    \/ \E n \in 1..2 : AppendRows(n)
    \/ ResetCsv(0)
    \/ Tick
    \/ \E event \in FsEvents, ok \in BOOLEAN : PairSignal(event, ok)


\* The watcher with cycles that raise after they have found new rows.
NextCommit ==
    \/ NextWatcher
    \/ \E event \in FsEvents, step \in AbortSteps : OnModifiedDashAborts(event, step)
    \/ \E step \in AbortSteps : OnModifiedTailAborts(step)

SpecCommit == InitWatcher /\ [][NextCommit]_vars

\* The signal of the tracked file, as watchdog delivers it for a write.
FileModified == [is_directory |-> FALSE, src_path |-> PhenobasePath]

\* The FastAPI service's watcher is started and stopped while the file grows.
NextService ==
    \/ AppendRows(1)
    \/ Tick
    \/ \E exists \in BOOLEAN, ok \in BOOLEAN : ServiceStart(exists, ok)
    \/ ServiceStop
    \/ \E i \in 1..MaxObservers : ObserverSignal(i, FileModified, TRUE)


\* A scripted source: at most MaxWrites writes, each made while the handler
\* is idle and signalled once before the next write; the history in
\* `signal` is recorded.
InitScenario == Init /\ signal.recording /\ last_count = Len(csv)

CanWrite == ~signal.pending /\ wpc = "idle" /\ Len(signal.writes) < MaxWrites

NextScenario ==
    \/ \E n \in 1..2 : CanWrite /\ AppendRows(n)
    \/ \E k \in 0..MaxRows : CanWrite /\ ResetCsv(k)
    \/ Tick
    \/ signal.pending /\ OnModifiedSkip(FileModified)
    \/ \E ok \in BOOLEAN : signal.pending /\ OnModifiedDash(FileModified, ok)
    \/ \E ok \in BOOLEAN : signal.pending /\ OnModifiedCount(FileModified, ok)
    \/ \E ok \in BOOLEAN : OnModifiedTail(ok)

SpecScenario == InitScenario /\ [][NextScenario]_vars

\* The observer thread hands the handler the signal of the latest write.
DeliverSignal ==
    /\ signal.pending
    /\ \/ OnModifiedSkip(FileModified)
       \/ OnModifiedDash(FileModified, TRUE)
       \/ OnModifiedCount(FileModified, TRUE)

\* A source that only appends, at most MaxWrites times, and then falls
\* silent; every read succeeds.
NextQuiet ==
    \/ \E n \in 1..2 : CanWrite /\ AppendRows(n)
    \/ Tick
    \/ DeliverSignal
    \/ OnModifiedTail(TRUE)

\* Time passes, a raised signal reaches on_modified and on_modified runs to
\* its end.
SpecQuiet ==
    /\ InitScenario
    /\ [][NextQuiet]_vars
    /\ WF_vars(Tick)
    /\ WF_vars(DeliverSignal)
    /\ WF_vars(OnModifiedTail(TRUE))

NextBroadcast ==
    \/ \E ws \in Sockets, channel \in {None} \cup ChannelNames : Connect(ws, channel)
    \/ \E ws \in Sockets : CloseSocket(ws)
    \/ \E ws \in Sockets : EndpointDisconnect(ws)
    \/ \E channel \in {None} \cup ChannelNames : BroadcastStart(channel)
    \/ BroadcastNext
    \/ \E ws \in Sockets : WsEndpointConnect(ws)
    \/ \E ws \in Sockets : WsEndpointExit(ws)
    \/ BroadcastNewImagesStart
    \/ BroadcastNewImagesNext

\* The watcher's construction succeeded; the watcher is left out.
InitBroadcast == InitWatcher /\ last_count = Len(csv)

SpecBroadcast == InitBroadcast /\ [][NextBroadcast]_vars

\* The FastAPI service at startup, its first read having succeeded.
InitFastapi == InitBroadcast /\ service = "fastapi"

\* Both handlers are constructed over the initial file.
SpecPair == InitFastapi /\ [][NextPair]_vars

SpecService == InitFastapi /\ [][NextService]_vars


\* One broadcast to subscribers that connected, closed or stalled before it.
NextFanout ==
    \/ \E ws \in Sockets : bc.pc = "idle" /\ Connect(ws, None)
    \/ \E ws \in Sockets : bc.pc = "idle" /\ NextSocket(ws) /\ WsEndpointConnect(ws)
    \/ \E ws \in Sockets : bc.pc = "idle" /\ CloseSocket(ws)
    \/ \E ws \in Sockets : bc.pc = "idle" /\ StallSocket(ws)
    \/ bc.pc = "idle" /\ BroadcastStart(None)
    \/ BroadcastNext
    \/ bc.pc = "idle" /\ BroadcastNewImagesStart
    \/ BroadcastNewImagesNext

\* The event loop resumes a broadcast whose awaited send has completed.
SpecFanout ==
    /\ InitBroadcast
    /\ [][NextFanout]_vars
    /\ WF_vars(BroadcastNext)
    /\ WF_vars(BroadcastNewImagesNext)

NextReconciler ==
    \/ \E kind \in {"new_image", "status"}, n \in 1..MaxBatch : OnWsMessage(kind, n)
    \/ ToggleFreeze
    \/ UpdateEventLog

SpecReconciler == InitBroadcast /\ [][NextReconciler]_vars


\* A viewer of the Dash application who follows coordinate "0": the file grows,
\* events arrive, and the viewer freezes, deselects and selects.
InitViewer == InitBroadcast /\ service = "dash"

NextFreeze ==
    \/ \E n \in 1..2 : Settled /\ AppendRows(n)
    \/ \E n \in 1..MaxBatch : LiveWsMessage("new_image", n)
    \/ Settled /\ ToggleFreeze
    \/ UpdateEventLog
    \/ \E coordinate \in {None, "0"} : SelectCoordinate(coordinate)
    \/ \E selected \in {<<>>, <<0>>} : SelectPoints(selected)
    \/ RunUpdateTable
    \/ RunUpdateTimeSeries
    \/ RunUpdateLiveStats
    \/ RunSendNewDataNotification
    \/ \E ok \in BOOLEAN : RunUpdateUmapAndData(ok)

SpecFreeze == InitViewer /\ [][NextFreeze]_vars

\* The Dash application's event loop with several broadcasts scheduled and
\* clients connecting meanwhile.
NextRelay ==
    \/ \E ws \in Sockets : \E order \in Orders(connected_clients \cup {ws}) :
          RelayConnect(ws, order)
    \/ RelayStart
    \/ \E t \in 1..MaxTasks, ok \in BOOLEAN : RelayResume(t, ok)

SpecRelay == InitViewer /\ [][NextRelay]_vars

\* The viewer of SpecFreeze on a channel that also carries messages of a
\* kind the viewer does not know.
NextBoundary ==
    \/ NextFreeze
    \/ LiveWsMessage("status", 0)

SpecBoundary == InitViewer /\ [][NextBoundary]_vars

\* A viewer that is never frozen and refreshes by the update button, with
\* update_umap_and_data taking its time between loading and returning.
NextRace ==
    \/ \E n \in 1..2 : Settled /\ AppendRows(n)
    \/ \E n \in 1..MaxBatch : LiveWsMessage("new_image", n)
    \/ UpdateEventLog
    \/ loaded = <<>> /\ ClickUpdate
    \/ RunUpdateTable
    \/ RunUpdateTimeSeries
    \/ RunUpdateLiveStats
    \/ RunSendNewDataNotification
    \/ StartRefresh
    \/ \E ok \in BOOLEAN : FinishRefresh(ok)

SpecRace == InitViewer /\ [][NextRace]_vars

\* The viewer's event log when messages arrive faster than the requests of
\* update_event_log are answered.
NextSerial ==
    \/ \E n \in 1..MaxBatch : RequestEventLog(n)
    \/ AnswerEventLog
    \/ ToggleFreeze

SpecSerial == InitViewer /\ [][NextSerial]_vars

\* The same viewer with every trigger of a projection: the dropdown, the
\* update button and the time range of the time series.
NextProjection ==
    \/ \E n \in 1..2 : Settled /\ AppendRows(n)
    \/ \E n \in 1..MaxBatch : LiveWsMessage("new_image", n)
    \/ Settled /\ ToggleFreeze
    \/ UpdateEventLog
    \/ \E coordinate \in {None, "0"} : SelectCoordinate(coordinate)
    \/ ClickUpdate
    \/ \E kind \in {"range", "autorange"} : Relayout(kind, 0, IF kind = "range" THEN 1 ELSE 0)
    \/ RunUpdateTable
    \/ RunUpdateTimeSeries
    \/ RunUpdateLiveStats
    \/ RunSendNewDataNotification
    \/ \E ok \in BOOLEAN : RunUpdateUmapAndData(ok)
    \/ \E ok \in BOOLEAN : RunFilterByTimeRange(ok)

SpecProjection == InitViewer /\ [][NextProjection]_vars

\* Request threads are interchangeable: the first idle one takes the request.
FirstIdle(w) == \A v \in Requests : v < w => requests[v].pc # "idle"

\* The projection lookups of a viewer of coordinate "0" while the file grows
\* and time passes; stored_rows is the number of rows in the file when
\* data-store was loaded.
NextCache ==
    \/ \E n \in 1..2 : AppendRows(n)
    \/ CacheTick
    \/ \E w \in Requests, kind \in {"main", "range", "reset"}, patch_type \in PatchTypes,
          stored_rows \in 1..MaxRows :
             /\ FirstIdle(w)
             /\ stored_rows <= Len(csv)
             /\ LookupStart(w, kind, patch_type, "0", stored_rows, 0, MaxRows)
    \/ \E w \in Requests, ok \in BOOLEAN : LookupCompute(w, ok)

SpecCache == InitViewer /\ [][NextCache]_vars

\* The projection lookups of a viewer of coordinate "0" over a large file that
\* is reset to its initial rows and grows back, with one row in the middle
\* or at the end of the frame possibly written by another run.
NextStale ==
    \/ \E d \in {0, LargeRows \div 2, LargeRows - 1} : Regrow(d)
    \/ ResetCsv(InitRows)
    \/ \E w \in Requests, kind \in {"main", "reset"}, patch_type \in PatchTypes :
          /\ FirstIdle(w)
          /\ LookupStart(w, kind, patch_type, "0", 1, 0, 0)
    \/ \E w \in Requests : LookupCompute(w, TRUE)

SpecStale == InitViewer /\ [][NextStale]_vars

----------------------------------------------------------------------------
(* SourceWatcher: claims *)

RECURSIVE EmittedRows(_)
\* The DataFrame index labels carried by the events of evs, in emission order.
EmittedRows(evs) ==
    IF evs = <<>> THEN <<>> ELSE EmittedRows(SubSeq(evs, 1, Len(evs) - 1)) \o evs[Len(evs)].rows

\* The rows with index a .. b - 1, in file order.
RowRange(a, b) == [k \in 1..(b - a) |-> a + k - 1]

\* C1: while no processed cycle has seen the count decrease, the rows carried
\* by all emitted events are exactly the rows C0 .. Baseline - 1, each once.
C1_MonotonicDiff ==
    (wpc = "idle" /\ history.monotone)
        => EmittedRows(scheduled) = RowRange(history.C0, last_count)

\* C2: a cycle that observes a count below the Baseline emits nothing and
\* moves the Baseline to that count; the growth cycle that follows emits
\* exactly one event, carrying the rows from that Baseline up to the count it
\* observed.
C2_ResetThenGrowth ==
    [][/\ (last_modified' # last_modified /\ cycle'.observed >= 0
              /\ cycle'.observed < last_count)
          => (scheduled' = scheduled /\ last_count' = cycle'.observed)
       /\ (history.rebased /\ last_count' > last_count)
          => /\ Len(scheduled') = Len(scheduled) + 1
             /\ scheduled'[Len(scheduled')].count = cycle'.observed - last_count
             /\ scheduled'[Len(scheduled')].rows = RowRange(last_count, cycle'.observed)]_vars

\* C3: a step in which a read of the source file fails emits no event and
\* leaves the Baseline where it was.
C3_ReadErrorKeepsBaseline ==
    [][(cycle'.failed /\ cycle' # cycle)
          => (last_count' = last_count /\ scheduled' = scheduled)]_vars

\* C17: a detection cycle starts no sooner than 0.5 s after the one before
\* it, so the signals of one debounce window start at most one cycle; a
\* signal that finds the handler inside the window changes neither the
\* Baseline nor the last-processed timestamp and schedules nothing.
C17_DebounceWindow ==
    [][/\ last_modified' # last_modified
          => (now - last_modified >= debounce_delay /\ last_modified' = now)
       /\ (wpc = "idle" /\ Debounced)
          => (last_count' = last_count /\ last_modified' = last_modified
              /\ scheduled' = scheduled /\ wpc' = wpc)]_vars

\* A cycle has been processed and the file has changed again inside the
\* window that cycle opened: the signal of that change is ignored.
C17_Witness ==
    /\ wpc = "idle"
    /\ last_modified > 0
    /\ Debounced
    /\ now > last_modified
    /\ Len(csv) # last_count

\* The scenario of the specification at the scale of the model: the Baseline
\* is InitRows, the file grows by two rows, is reset to one row and grows by
\* two rows again.
ScenarioWrites == <<InitRows + 2, 1, 3>>

\* C18: once the three writes of the scenario have been signalled, every read
\* having succeeded, exactly two events were emitted, the first with the rows
\* InitRows .. InitRows + 1 and the second with the rows 1 .. 2, and the
\* Baseline is 3; also when the signal of the reset arrives inside the
\* debounce window that the signal of the first growth opened.
C18_GrowResetGrow ==
    (/\ signal.recording
     /\ signal.orderly
     /\ signal.writes = ScenarioWrites
     /\ signal.seen \in {<<"cycle", "cycle", "cycle">>, <<"cycle", "window", "cycle">>}
     /\ ~signal.pending
     /\ wpc = "idle")
    => /\ last_count = 3
       /\ Len(scheduled) = 2
       /\ scheduled[1] = ChangeEvent(Rows(InitRows + 2), 2, InitRows + 2)
       /\ scheduled[2] = ChangeEvent(Rows(3), 2, 3)

C24_CommitIsAtomic ==
    [][/\ last_count' > last_count
          => /\ Len(scheduled') = Len(scheduled) + 1
             /\ scheduled'[Len(scheduled')].total = last_count'
             /\ scheduled'[Len(scheduled')].count = last_count' - last_count
       /\ Len(scheduled') > Len(scheduled)
          => /\ last_count' = scheduled'[Len(scheduled')].total
             /\ last_count' > last_count
       /\ (/\ cycle'.failed
           /\ cycle'.observed > cycle'.before
           /\ wpc = "tail" \/ last_modified' # last_modified)
          => last_count' = last_count]_vars

\* C27: the event of a cycle that observed the count C above the Baseline B
\* has count C - B, total C and carries exactly the rows B .. C - 1 in file
\* order, also when the file is written between the cycle's reads; the
\* Baseline becomes C, so the rows written after the count was read are left
\* for a later event.
C27_EventOfObservedRows ==
    [][Len(scheduled') > Len(scheduled)
          => LET ev == scheduled'[Len(scheduled')]
                 B == last_count
                 C == cycle'.observed
             IN /\ C > B
                /\ ev.count = C - B
                /\ ev.total = C
                /\ ev.rows = RowRange(B, C)
                /\ Len(ev.images) = C - B
                /\ \A k \in 1..Len(ev.images) :
                      k <= Len(ev.rows) => ev.images[k].filename = Row(ev.rows[k]).czi_filename
                /\ last_count' = C]_vars

\* C28: a processed cycle that observes a count equal to the Baseline is a
\* no-op: it hands the broadcaster nothing, leaves the Baseline where it was
\* and returns without a second read.
C28_EqualCountIsNoOp ==
    [][(last_modified' # last_modified /\ cycle'.observed = last_count)
          => (scheduled' = scheduled /\ last_count' = last_count /\ wpc' = "idle")]_vars

\* A cycle passed the debounce test and observed the Baseline's count.
C28_Witness ==
    /\ last_modified > 0
    /\ last_modified = now
    /\ wpc = "idle"
    /\ ~cycle.failed
    /\ cycle.observed = cycle.before
    /\ cycle.observed = Len(csv)
    /\ last_count = cycle.before

\* C32: rows appended to the file are eventually reported.  Whenever the
\* file has more rows than the Baseline, a cycle eventually brings the
\* Baseline up to the file and hands the broadcaster an event, also when the
\* signals of the growth fell inside a debounce window.
C32_GrowthEventuallyReported ==
    (Len(csv) > last_count) ~> (last_count = Len(csv) /\ scheduled # <<>>)

\* C36: every scheduled ChangeEvent is well-formed: it announces at least
\* one row, carries as many row summaries as it announces, its total is the
\* Baseline after the cycle and its total less its count is the Baseline
\* before the cycle; the Baseline is never negative.
C36_EventWellFormed ==
    [][/\ last_count' >= 0
       /\ Len(scheduled') > Len(scheduled)
          => LET ev == scheduled'[Len(scheduled')]
             IN /\ ev.count >= 1
                /\ Len(ev.images) = ev.count
                /\ ev.total = last_count'
                /\ ev.total - ev.count = cycle'.before]_vars

\* C37: fed the same signals, file contents and read failures from the same
\* Baseline, the two handlers have the same Baseline after every cycle and
\* have emitted the same sequence of (addedCount, totalCount, row indices).
C37_HandlersAgree ==
    /\ pair.dash.last_count = pair.fastapi.last_count
    /\ pair.dash.scheduled = pair.fastapi.scheduled

\* C38: once CSVWatcherService.stop() has returned and until start is called
\* again, no handler starts a detection cycle and no Baseline changes,
\* whatever start and stop calls came before.
C38_StopHaltsObservation ==
    [][(watcher.last = "stop" /\ watcher'.last = "stop")
          => \A i \in 1..Len(watcher.threads) :
                watcher'.threads[i].handler = watcher.threads[i].handler]_vars

----------------------------------------------------------------------------
(* Broadcaster: claims *)

\* The set a broadcast delivers from.
Registry(channel) == IF service = "dash" THEN connected_clients ELSE Targets(channel)

Succeeded(b) == {ws \in Sockets : b.received[ws] = 1}

C5_FailureDoesNotAbort ==
    [][(bc.pc = "sending" /\ bc'.pc = "returned" /\ ~bc'.mutated)
          => /\ \A ws \in bc'.start : bc'.attempts[ws] = 1
             /\ \A ws \in bc'.failed : sock[ws] \in {"closed", "gone"}
             /\ Succeeded(bc') = bc'.start \ bc'.failed
             /\ Registry(bc.channel)' = Succeeded(bc')]_vars

\* Three subscribers were registered, one send failed, two received the event
\* and two are registered after the broadcast.
C5_Witness ==
    /\ bc.pc = "returned"
    /\ ~bc.mutated
    /\ Cardinality(bc.start) = 3
    /\ Cardinality(bc.failed) = 1
    /\ Cardinality(Succeeded(bc)) = 2
    /\ Cardinality(Registry(bc.channel)) = 2

\* C6: once a broadcast has returned, a subscriber whose send failed is in
\* neither active_connections nor the subscriber set of any channel.
C6_FailedAbsentEverywhere ==
    (service = "fastapi" /\ bc.pc = "returned")
        => \A ws \in bc.failed :
              /\ ws \notin active_connections
              /\ \A c \in DOMAIN channels : ws \notin channels[c]

\* A send of the broadcast was attempted to ws in this step.
Attempted(ws) == bc' # bc /\ ws \in bc'.visited /\ (ws \notin bc.visited \/ bc.pc # "sending")

\* C7: a send of broadcast(message, channel=c) goes to a subscriber that is
\* in channel c's set at that moment, a send of broadcast(message) to one that
\* is in active_connections; and a broadcast(message) that returns has sent to
\* every subscriber registered when it started, a broadcast(message, c) to
\* every registered subscriber connected with channel c.
C7_ChannelScope ==
    /\ [][service = "fastapi"
            => \A ws \in Sockets :
                  Attempted(ws)
                     => IF bc'.channel = None
                        THEN ws \in active_connections
                        ELSE bc'.channel \in DOMAIN channels /\ ws \in channels[bc'.channel]]_vars
    /\ [](service = "fastapi" /\ bc.pc = "returned" /\ ~bc.mutated
            => \A ws \in bc.registered :
                  (bc.channel = None \/ chan[ws] = bc.channel) => bc.attempts[ws] = 1)

\* A broadcast to channel "a" returned having sent to its subscriber while a
\* subscriber of another channel and one of no channel were registered.
C7_Witness ==
    /\ service = "fastapi"
    /\ bc.pc = "returned"
    /\ bc.channel = "a"
    /\ bc.visited # {}
    /\ \E ws \in active_connections : chan[ws] = "b" /\ bc.attempts[ws] = 0
    /\ \E ws \in active_connections : chan[ws] = None /\ bc.attempts[ws] = 0

\* C20: a broadcast that has started eventually returns, every responsive
\* subscriber it started with having received the event, even when the send
\* to one subscriber never completes; that subscriber is then dropped from
\* the registry.
C20_StalledSubscriberDoesNotBlock ==
    (bc.pc \in {"sending", "blocked"})
        ~> (/\ bc.pc = "returned"
            /\ \A ws \in bc.start : SendOk(ws) => bc.received[ws] = 1
            /\ \A ws \in bc.start : Stalled(ws) => ws \notin Registry(bc.channel))

\* C21: a registration, a disconnection or a pruning that happens while a
\* broadcast is suspended in a send neither aborts the broadcast nor spoils
\* its iteration: the broadcast returns having attempted a delivery to
\* every subscriber that was registered for it when it started.
C21_MutationDoesNotAbort ==
    /\ bc.pc # "raised"
    /\ bc.pc = "returned" => \A ws \in bc.start : bc.attempts[ws] >= 1

\* C33: every client is sent the events in the order the watcher scheduled
\* their broadcasts: on no connection does a later event come before an
\* earlier one.
C33_EventsInScheduledOrder ==
    \A ws \in Sockets :
        \A i, j \in 1..Len(relay.inbox[ws]) :
            i < j => relay.inbox[ws][i] < relay.inbox[ws][j]

\* C34: in every state of the ConnectionManager each subscriber of a
\* channel's set is in active_connections, and no channel has an empty set.
C34_ChannelsWithinActive ==
    service = "fastapi"
        => \A c \in DOMAIN channels :
              /\ channels[c] \subseteq active_connections
              /\ channels[c] # {}

----------------------------------------------------------------------------
(* Reconciler: claims *)

\* An entry of the event log without its flag and its clock reading.
LoggedEvent(evt) == [count |-> evt.count, total |-> evt.total, images |-> evt.images]

\* C8: once M change events have been handled the log holds the latest
\* min(M, 15) of them, newest first, and exactly one entry, the newest, has
\* is_new set.
C8_EventLogBound ==
    ~triggered
        => /\ Len(event_log_store) = Min(Len(handled), KeepOld + 1)
           /\ \A k \in 1..Len(event_log_store) :
                 /\ LoggedEvent(event_log_store[k])
                       = LoggedEvent(handled[Len(handled) - k + 1])
                 /\ event_log_store[k].is_new = (k = 1)

\* More than 15 events were handled, so the oldest were evicted.
C8_Witness ==
    /\ ~triggered
    /\ Len(handled) > KeepOld + 1
    /\ Len(event_log_store) = KeepOld + 1

\* C9: the step in which update_event_log handles an event leaves
\* pending-update-store at the negation of the freeze switch it read.
C9_PendingIsNotFrozen ==
    [][handled' # handled => pending_update_store' = ~freeze_toggle]_vars

\* An event was handled while the viewer was frozen after one handled while it
\* was not: the flag is down again.
C9_Witness ==
    /\ ~triggered
    /\ Len(handled) >= 2
    /\ freeze_toggle
    /\ ~pending_update_store

\* The identities (unique patch paths) of the rows an event carries.
Identities(ws_data) ==
    [k \in 1..Len(ws_data.rows) |-> Row(ws_data.rows[k]).patches_2d_ch0_tl_exp_path]

\* C10: after an event is handled new-rows-store holds the identities of that
\* event's rows, one distinct identity per row.
C10_NewRowIdentities ==
    (~triggered /\ handled # <<>>)
        => /\ new_rows_store = Identities(handled[Len(handled)])
           /\ Cardinality({new_rows_store[k] : k \in 1..Len(new_rows_store)})
                 = handled[Len(handled)].count

\* C22: once every request of update_event_log has been answered, the event
\* log holds an entry for each event handled (up to its capacity), also when
\* an event arrived before the request of the event before it was answered.
C22_NoEventLostFromLog ==
    (in_flight = <<>> /\ Len(handled) <= KeepOld + 1)
    => \A k \in 1..Len(handled) :
          \E e \in 1..Len(event_log_store) :
             LoggedEvent(event_log_store[e]) = LoggedEvent(handled[k])

----------------------------------------------------------------------------
(* Viewer: claims *)

\* A callback that a WebSocket message triggered runs in this step.
HandlesWs(cb) ==
    \E d \in dispatched \ dispatched' : d.cb = cb /\ d.triggered_id \in {"ws", "ws-message-store"}

\* C11: an event handled while the freeze flag is true leaves the table rows,
\* the time-series figure and the statistics display exactly as they were,
\* whatever the other inputs are (no coordinate selected included).
C11_FrozenIsNoOp ==
    [][(freeze_toggle /\ (HandlesWs("update_table") \/ HandlesWs("update_time_series")
                             \/ HandlesWs("update_live_stats")))
         => (data_table' = data_table /\ timeseries_plot' = timeseries_plot
             /\ stats_display' = stats_display)]_vars

\* C12: every event handled, frozen or not, produces a notification and a new
\* entry at the head of the event log; the freeze flag changes the title and
\* colour of the notification only.
C12_PassiveConsumersAlwaysRun ==
    [][/\ HandlesWs("send_new_data_notification")
          => /\ Len(notification') = 1
             /\ notification'[1].count = ws_message_store[1].count
             /\ notification'[1].id = ws_message_store[1].total
             /\ notification'[1].title =
                   IF freeze_toggle THEN "New Data (Paused)" ELSE "New Data Received"
             /\ notified' = Append(notified, ws_message_store[1])
       /\ (triggered /\ ~triggered')
          => /\ Len(event_log_store') = Min(Len(event_log_store), KeepOld) + 1
             /\ LoggedEvent(event_log_store'[1]) = LoggedEvent(ws_message_store[1])
             /\ event_log_store'[1].is_new
             /\ handled' = Append(handled, ws_message_store[1])]_vars

\* Two events were handled by both passive consumers, the later one while frozen.
C12_Witness ==
    /\ freeze_toggle
    /\ Len(handled) = 2
    /\ notified = handled
    /\ Len(event_log_store) = 2
    /\ notification # <<>>
    /\ notification[1].title = "New Data (Paused)"
    /\ notification[1].id = handled[2].total

\* The triggers of a projection: the page load, a filter change, the update
\* button and a time range.
UserTriggers == {None, "patch-dropdown", "coord-dropdown", "update-umap-btn", "timeseries-plot"}

\* C13: no change event makes the projection recompute or changes umap-plot or
\* data-store, frozen or not; the projection changes only when a callback runs
\* that a filter change, the update button or a time range triggered.
C13_ProjectionOnlyOnUserTrigger ==
    [][/\ (umap_plot' # umap_plot \/ data_store' # data_store \/ cache_store' # cache_store)
          => \E d \in dispatched \ dispatched' :
                /\ d.cb \in {"update_umap_and_data", "filter_by_time_range"}
                /\ d.triggered_id \in UserTriggers
       /\ (ws_message' # ws_message \/ \E cb \in DOMAIN CallbackInputs : HandlesWs(cb))
          => (umap_plot' = umap_plot /\ data_store' = data_store /\ cache_store' = cache_store)]_vars

\* Frozen or not, two events were handled after the file grew, and the
\* projection still shows the rows loaded before them.
C13_Witness ==
    /\ Settled
    /\ Len(handled) = 2
    /\ coord_dropdown = "0"
    /\ data_store # <<>>
    /\ Len(data_store) < Len(FilterPos(csv, coord_dropdown))
    /\ umap_plot.rows = data_store
    /\ timeseries_plot.total_points # Len(data_store)

\* C26: a message that is not a new_image event is rejected at the boundary.
\* Its arrival leaves ws-message-store alone, and every callback it triggers
\* leaves the event log, the pending flag, the new-row ids, the table, the
\* time series and the statistics as they were.
C26_UnknownMessageRejected ==
    [][/\ (ws_message' # ws_message /\ ws_message'[1].type # "new_image")
          => UNCHANGED <<ws_message_store, triggered>>
       /\ (/\ ws_message # <<>>
           /\ ws_message[1].type # "new_image"
           /\ \E cb \in DOMAIN CallbackInputs : HandlesWs(cb))
          => UNCHANGED <<event_log_store, pending_update_store, new_rows_store, data_table,
                         timeseries_plot, stats_display>>]_vars

\* update_umap_and_data runs in this step and sets its outputs.
RefreshCompletes ==
    /\ \E d \in dispatched \ dispatched' : d.cb = "update_umap_and_data"
    /\ Dispatch("data-store") \subseteq dispatched'

\* C29: when update_umap_and_data completes, the pending flag is false and
\* the pending badge hidden whatever the freeze switch is, and the key of
\* the entry it stored in the cache ends with the count of the filtered rows
\* it loaded in that run (the rows it put in data-store).
C29_RefreshClearsPending ==
    [][RefreshCompletes
          => /\ ~pending_update_store'
             /\ pending_badge' = "none"
             /\ \A mk \in DOMAIN cache_store' \ DOMAIN cache_store :
                   EndsWith(mk[2], <<"_">> \o Str(Len(data_store')))]_vars

\* A frozen viewer that has handled an event, after a refresh that stored
\* the projection of the rows now in data-store: the badge the event had
\* shown is hidden.
C29_Witness ==
    /\ freeze_toggle
    /\ Settled
    /\ handled # <<>>
    /\ ~pending_update_store
    /\ pending_badge = "none"
    /\ data_store # <<>>
    /\ Len(data_store) # Announced
    /\ \E mk \in DOMAIN cache_store : EndsWith(mk[2], <<"_">> \o Str(Len(data_store)))

\* C30 as claimed: once set, the pending flag goes down only in a step in
\* which an explicit refresh completes.
C30_PendingUntilRefresh ==
    [][(pending_update_store /\ ~pending_update_store') => RefreshCompletes]_vars

\* C30, amended: once an unfrozen event has set the pending flag it stays
\* set until an explicit refresh completes or the next event is handled
\* while the viewer is frozen; that event sets the flag to false and leaves
\* the pending badge shown.
C30_PendingUntilRefreshOrFrozenEvent ==
    [][/\ (pending_update_store /\ ~pending_update_store')
          => (RefreshCompletes \/ (handled' # handled /\ freeze_toggle))
       /\ (pending_update_store /\ handled' # handled /\ freeze_toggle)
          => (~pending_update_store' /\ pending_badge' = "inline-block")]_vars

\* A frozen viewer after its second event, with no refresh since: the flag is
\* down and the badge is shown.
C30_Witness ==
    /\ freeze_toggle
    /\ Settled
    /\ Len(handled) >= 2
    /\ ~pending_update_store
    /\ pending_badge = "inline-block"

\* C31: in a viewer that is never frozen, while the pending flag is false the
\* rows of the displayed projection include every row of the selected
\* coordinate that an event handled so far announced, also when a refresh
\* loaded its rows before the event was handled and returns after it.
C31_ClearedFlagMeansCurrent ==
    (~freeze_toggle /\ ~pending_update_store /\ coord_dropdown # None)
        => \A e \in 1..Len(handled) : \A i \in 1..Len(handled[e].rows) :
              Row(handled[e].rows[i]).pos = CoordInt(coord_dropdown)
                 => \E k \in 1..Len(data_store) : data_store[k] = Row(handled[e].rows[i])

----------------------------------------------------------------------------
(* ProjectionCache: claims *)

\* Lookup i had returned before lookup j began.
Before(i, j) == i \in lookups[j].after

\* Two lookups of the same function and cache_key.
SameKey(i, j) == lookups[i].fname = lookups[j].fname /\ lookups[i].key = lookups[j].key

\* The lookup ran, or is about to run, the compute function.
Computes(i) == lookups[i].outcome \in {"pending", "computed", "raised"}

\* C14: of two sequential lookups with the same key over the same rows, the
\* second returns the memoized result of the first and does not compute again.
C14_SecondLookupIsMemoized ==
    \A j \in 1..Len(lookups) : \A i \in 1..Len(lookups) :
        (/\ Before(i, j)
         /\ SameKey(i, j)
         /\ lookups[i].df = lookups[j].df
         /\ lookups[i].outcome = "computed")
        => (lookups[j].outcome = "hit" /\ lookups[j].value = lookups[i].value)

\* C15: of the lookups with one key that run concurrently (each begins before
\* the other has returned), at most one executes the compute function.
C15_ConcurrentComputeOnce ==
    \A i \in 1..Len(lookups) : \A j \in 1..Len(lookups) :
        (/\ i < j
         /\ ~Before(i, j)
         /\ SameKey(i, j)
         /\ lookups[i].df = lookups[j].df)
        => ~(Computes(i) /\ Computes(j))

\* C16: when the rows passed to a lookup have grown since an earlier lookup
\* of the same kind and filter dimensions, the cache key differs from the
\* earlier one and the earlier entry is not returned.
C16_KeyCarriesGrowth ==
    \A i \in 1..Len(lookups) : \A j \in 1..Len(lookups) :
        (/\ i < j
         /\ lookups[i].kind = lookups[j].kind
         /\ lookups[i].dims = lookups[j].dims
         /\ Len(lookups[j].df) > Len(lookups[i].df))
        => /\ lookups[j].key # lookups[i].key
           /\ lookups[j].outcome = "hit" => lookups[j].value # Compute(lookups[i].df)

\* The entry memoize keeps for the call of lookup i.
EntryOf(i) == MemoKey(lookups[i].fname, lookups[i].key, lookups[i].df)

\* C19: a compute function that raises stores nothing under the key and the
\* failure reaches the caller; a later lookup of the key is never answered
\* with a cached failure but computes again.
C19_FailureIsNotCached ==
    /\ \A j \in 1..Len(lookups) :
          lookups[j].outcome = "hit"
          => /\ lookups[j].value = Compute(lookups[j].df)
             /\ \E i \in 1..Len(lookups) :
                   i # j /\ EntryOf(i) = EntryOf(j) /\ lookups[i].outcome = "computed"
    /\ \A mk \in DOMAIN cache_store :
          \E i \in 1..Len(lookups) : EntryOf(i) = mk /\ lookups[i].outcome = "computed"

\* A lookup raised, and the next lookup of the same key, begun after it had
\* returned, missed and ran the compute function again.
C19_Witness ==
    \E i \in 1..Len(lookups) : \E j \in 1..Len(lookups) :
        /\ Before(i, j)
        /\ EntryOf(i) = EntryOf(j)
        /\ lookups[i].outcome = "raised"
        /\ lookups[j].outcome = "computed"
        /\ EntryOf(j) \in DOMAIN cache_store


\* C25: an entry of the projection cache, once stored, is never evicted and
\* never expires: whatever happens next, a lookup of its key still finds it.
C25_EntryNeverExpires ==
    [][\A mk \in DOMAIN cache_store :
          CacheHas(cache_store, mk) => (mk \in DOMAIN cache_store' /\ CacheHas(cache_store, mk)')]_vars

\* C35: the projection a lookup returns was computed from the rows passed to
\* that lookup; after a reset and regrowth to an earlier filtered row count
\* with different rows, the entry computed from the old rows is not returned.
C35_HitComputedFromPassedRows ==
    \A j \in 1..Len(lookups) :
        lookups[j].outcome = "hit" => lookups[j].value.embedding = lookups[j].df

====
